---- MODULE Spec2Model ----
(***************************************************************************)
(* Verification model of StepDeepResearch (cortex).                        *)
(*                                                                         *)
(* Part 1: cortex/utils/generator_merger.py, GeneratorMerger: N producer   *)
(* tasks fan in to one consumer through an asyncio.Queue.                  *)
(* Part 2: cortex/tools/channel.py, Channel: request/response rendezvous   *)
(* through a table of one-shot futures.                                    *)
(* Part 3: cortex/orchestrator, Orchestrator.run and LocalRunner: one      *)
(* task tree, its runners, the merger of run() and the completion          *)
(* callback that hands a child's result to its parent.                     *)
(* Part 4: cortex/agents, BaseStepAgent._run with ReActAgent._step: the    *)
(* step loop of one agent, its context store and its model input.          *)
(* Part 5: BaseStepAgent.__init__: the resolution of the context limits.   *)
(* Part 6: cortex/model, one model call: the retry wrappers of the         *)
(* provider and the merge of the streamed deltas.                          *)
(* Part 7: cortex/server/http_server.py, websocket_handler.                *)
(* Part 8: StepFunModelProvider: the think tags of a content stream.       *)
(* Part 9: cortex/agents/checkpoint_agent, CheckpointAgent._run: the runs  *)
(* of one thread.                                                          *)
(* Part 10: agentkit/trace/context.py, SpanContext.span: the scopes of the *)
(* tasks of one task tree.                                                 *)
(*                                                                         *)
(* All coroutines run on one asyncio event loop, so a step of the model is *)
(* the code a coroutine runs between two suspension points.  The merger's  *)
(* asyncio.Lock is never held across a suspension point, hence it is never *)
(* contended and "async with self._lock" does not suspend; Queue.put on an *)
(* unbounded queue does not suspend either.                                *)
(***************************************************************************)
EXTENDS Naturals, Integers, Sequences, FiniteSets, TLC

(***************************************************************************)
(* Bounds                                                                  *)
(***************************************************************************)
\* calls of add_generator / add_async_generator made on one merger
MaxAdds == 2
\* items the producers of one merger yield at most, all together
MaxItems == 3

\* calls of send_request made on one channel
MaxCalls == 2

\* deltas the provider yields during one streaming model call
MaxDeltas == 3

\* events a websocket client sends after the initial REQUEST
MaxEvents == 3
\* events the orchestrator's run() yields for one websocket connection
MaxOutgoing == 2

\* generator_id arguments given to add_generator: None (here "None") makes
\* the merger generate the id, as the examples do
SyncIdArgs == {"None"}
\* generator_id arguments given to add_async_generator: the orchestrator
\* always passes a task id or a tool call id
AsyncIdArgs == {"t1"}

\* request_id arguments given to send_request: None makes the channel
\* generate the id; ClientTool._call passes the tool_call_id
RequestIdArgs == {"None", "c1"}
\* (data, error) arguments given to set_response: a result without error, or
\* no data with an error message
Responses == {<<"d1", "None">>, <<"None", "boom">>}

VARIABLES
  \* ---- GeneratorMerger ----
  generators,        \* keys of self._generators
  asyncGenerators,   \* keys of self._async_generators
  runningTasks,      \* self._running_tasks: the asyncio tasks, in creation order
  queue,             \* self._queue
  activeCount,       \* self._active_count
  processed,         \* self._processed_generators
  hasCallback,       \* self._on_generator_complete is set
  mpc,               \* position of the consumer in merge()
  adds,              \* number of add_* calls made so far
  lastAdd,           \* outcome of the last add_* call
  delivered,         \* history: per producer id, what merge() has yielded
                     \* from that producer, in order
  callbackLog,       \* history: per producer id, the number of calls of the
                     \* on_complete callback
  lateAdded          \* history: ids registered while merge() was being
                     \* consumed, for which no task has been created yet

VARIABLES
  \* ---- Channel ----
  pendingRequests,   \* self._pending_requests: request id -> future (0: no entry)
  requestCounter,    \* self._request_counter
  futures,           \* the asyncio.Future objects created by send_request
  calls,             \* the send_request calls made, each with its position
  firstResponse,     \* history: per future, the set_response that resolved it
                     \* and the position of the future's call at that time
  ignoredResponse    \* history: the future the first set_response that came
                     \* too late found already set (0: none so far)

VARIABLES
  \* ---- Orchestrator, LocalRunner ----
  runPc,             \* position of Orchestrator.run
  orchMode,          \* the mode argument of run()
  rootTaskId,        \* root_task_id in run()
  needRunRootRunner, \* need_run_root_runner in run()
  runners,           \* keys of self._runners
  taskToRoot,        \* self._task_to_root ("None": no entry)
  taskToParent,      \* self._task_to_parent ("None": no entry)
  mergers,           \* keys of self._mergers
  runnerTaskIds,     \* keys of self._runner_task_ids
  localRunner,       \* per task, the fields of its LocalRunner
  agentPc,           \* per task, the position of the agent's step loop
  currentRound,      \* per task, BaseStepAgent.current_round
  toolFuture,        \* per task, the pending request of its toolset's channel
  toolCalls,         \* number of client tool calls made so far
  callOwner,         \* per tool call id, the task whose agent made the call
  omAsyncGenerators, \* run()'s merger: keys of _async_generators
  omProcessed,       \* run()'s merger: _processed_generators
  omTasks,           \* run()'s merger: per task, the state of its wrapper task
  omQueue,           \* run()'s merger: _queue
  lmQueue,           \* per task, the _queue of the runner's own merger
  yielded,           \* the event run() is suspended on, handed to its consumer
  completion         \* history: per task, what the completion callback of
                     \* its generator did

VARIABLES
  \* ---- BaseStepAgent / ReActAgent with its context store ----
  heap,                \* the ChatMessage objects made so far, by object id
  context,             \* simple_contexts[session_id]: object ids, in order
  stepPc,              \* position of BaseStepAgent._run
  stepRound,           \* self.current_round
  forceEnabled,        \* self._force_final_answer_enabled
  forcePromptInserted, \* self._force_prompt_inserted
  runnerToolCallId,    \* LocalRunner._tool_call_id of the runner of the agent
  modelMessages,       \* what _prepare_messages_for_model returned last
  pendingCall,         \* id of the tool call being executed
  toolOutcome,         \* history: how the last toolset.call ended
  response,            \* the AgentResponse handed on last, in its RESPONSE event
  sent                 \* history: messages LocalRunner.send got for the agent
                       \* during its run

VARIABLES
  \* ---- BaseStepAgent.__init__: the context limits ----
  extra_cfg,           \* config.extra_config: the three limit keys
  runtime_cfg,         \* the runtime config file: the two limit keys
  limits               \* self._force_final_answer_upper_limit / _lower_limit
                       \* (0: the agent is not constructed yet)

VARIABLES
  \* ---- StepFunModelProvider, ModelAPI: one model call ----
  callPc,              \* position of the call: "idle", "running" (waiting for
                       \* the network), "sleeping", "returned", "raised"
  streaming,           \* chat_completion_stream rather than chat_completion
  attempt,             \* attempt in _call_with_retry / _stream_with_retry
  invocations,         \* history: calls of func() / stream_factory() made
  sleeps,              \* history: the delays given to asyncio.sleep
  last_exc,            \* last_exc, an exception named by the attempt that
                       \* raised it (0: None)
  raisedExc,           \* the exception the call ended with (0: none)
  deltas,              \* history: the events ModelAPI got from the provider
  failedDeltas,        \* history: how many of them came from attempts that
                       \* raised afterwards
  accumulated_message  \* accumulated_message in chat_completion_stream

VARIABLES
  \* ---- websocket_handler of the HTTP server ----
  wsPc,                \* position of websocket_handler: "waiting" (in
                       \* asyncio.wait), "closed"
  recvTask,            \* the task of send_to_agent_loop
  agentTask,           \* the task of send_to_client_loop
  received,            \* history: the events send_to_agent_loop received
  sentToClient         \* history: number of events sent to the client

VARIABLES
  \* ---- StepFunModelProvider: the <think> tags of one content stream ----
  stream_content,      \* the content of the whole response, a list of
                       \* characters
  delivered_len,       \* history: how many of its characters have arrived
  chunks,              \* history: number of deltas that carried them
  stream_in_think_tag, \* self._stream_in_think_tag
  stream_tag_buffer,   \* self._stream_tag_buffer
  reasoning_out,       \* history: the reasoning returned so far, in order
  text_out             \* history: the text content returned so far, in order

VARIABLES
  \* ---- CheckpointAgent with CheckpointReActAgent._step: one thread ----
  storage,             \* the storage's entry of the thread: <<>> (None) or
                       \* <<the saved CheckpointState>>
  state,               \* the CheckpointState the running _run works on
  cpPc,                \* position of _run: "idle" (no run), "loop", "process"
                       \* and "step" (suspended at a yield), "check"
  resultIdx,           \* in "process": index of the tool result just yielded
  stepResponse,        \* in "step": the message _step yielded
  client_tool_results, \* ToolSet._client_tool_results, per tool call id
  toolCallIds,         \* history: number of tool call ids the model has made
  runs                 \* history: number of calls of _run

VARIABLES
  \* ---- SpanContext: the scopes of the tasks of one task tree ----
  span_stack,          \* self._span_stack, the spans by their number
  spanCount,           \* history: number of spans made
  spanParent,          \* per span, its parent_id (0: None)
  scopes,              \* per task, its open `with ctx.span` scopes, innermost
                       \* last: the span of the scope and its token
  current_context,     \* per task, _current_context in the task's context
  treeTasks            \* the tasks that exist

mergerVars ==<<generators, asyncGenerators, runningTasks, queue, activeCount,
                processed, hasCallback, mpc, adds, lastAdd, delivered,
                callbackLog, lateAdded>>
channelVars == <<pendingRequests, requestCounter, futures, calls,
                 firstResponse, ignoredResponse>>

orchVars == <<runPc, orchMode, rootTaskId, needRunRootRunner, runners,
              taskToRoot, taskToParent, mergers, runnerTaskIds, localRunner,
              agentPc, currentRound, toolFuture, toolCalls, callOwner,
              omAsyncGenerators, omProcessed, omTasks, omQueue, lmQueue,
              yielded, completion>>

agentVars == <<heap, context, stepPc, stepRound, forceEnabled,
               forcePromptInserted, runnerToolCallId, modelMessages,
               pendingCall, toolOutcome, response, sent>>

configVars == <<extra_cfg, runtime_cfg, limits>>

modelVars == <<callPc, streaming, attempt, invocations, sleeps, last_exc,
               raisedExc, deltas, failedDeltas, accumulated_message>>

serverVars == <<wsPc, recvTask, agentTask, received, sentToClient>>

thinkVars == <<stream_content, delivered_len, chunks, stream_in_think_tag,
               stream_tag_buffer, reasoning_out, text_out>>

checkpointVars == <<storage, state, cpPc, resultIdx, stepResponse,
                    client_tool_results, toolCallIds, runs>>

spanVars == <<span_stack, spanCount, spanParent, scopes, current_context,
              treeTasks>>

\* the variables of the parts added last
laterVars == <<thinkVars, checkpointVars, spanVars>>

\* what the steps of one component leave alone
notMerger == <<channelVars, orchVars, agentVars, configVars, modelVars,
               serverVars, laterVars>>
notChannel == <<mergerVars, orchVars, agentVars, configVars, modelVars,
                serverVars, laterVars>>
notOrch == <<mergerVars, channelVars, agentVars, configVars, modelVars,
             serverVars, laterVars>>
notAgent == <<mergerVars, channelVars, orchVars, configVars, modelVars,
              serverVars, laterVars>>
notConfig == <<mergerVars, channelVars, orchVars, agentVars, modelVars,
               serverVars, laterVars>>
notModel == <<mergerVars, channelVars, orchVars, agentVars, configVars,
              serverVars, laterVars>>
notServer == <<mergerVars, channelVars, orchVars, agentVars, configVars,
               modelVars, laterVars>>
earlierVars == <<mergerVars, channelVars, orchVars, agentVars, configVars,
                 modelVars, serverVars>>
notThink == <<earlierVars, checkpointVars, spanVars>>
notCheckpoint == <<earlierVars, thinkVars, spanVars>>
notSpan == <<earlierVars, thinkVars, checkpointVars>>

vars == <<earlierVars, laterVars>>

(***************************************************************************)
(* Helpers                                                                 *)
(***************************************************************************)
RECURSIVE SetToSeq(_)
\* a list of the elements of S (order of a dict snapshot; the order in which
\* tasks are created is not observable)
SetToSeq(S) ==
  IF S = {} THEN <<>>
  ELSE LET e == CHOOSE e \in S : TRUE IN <<e>> \o SetToSeq(S \ {e})

\* f"sync_gen_{len(self._generators)}"
SyncAutoId == "sync_gen_" \o ToString(Cardinality(generators))
\* f"async_gen_{len(self._async_generators)}"
AsyncAutoId == "async_gen_" \o ToString(Cardinality(asyncGenerators))

\* asyncio.create_task(self._run_generator(...), name=f"{type}_{id}")
NewTask(type, id) == [type |-> type, id |-> id, st |-> "created", n |-> 0]

\* queue entries: the k-th item of a producer, ("__error__", e) and
\* ("__event__", {"type": "generator_complete", ...})
Item(id, k) == [kind |-> "item", id |-> id, k |-> k, status |-> ""]
ErrorSentinel(id) == [kind |-> "__error__", id |-> id, k |-> 0, status |-> ""]
EventSentinel(id, status) ==
  [kind |-> "__event__", id |-> id, k |-> 0, status |-> status]

\* every generator id that can occur
AllIds ==
  ((SyncIdArgs \cup AsyncIdArgs) \ {"None"})
    \cup {"sync_gen_" \o ToString(n) : n \in 0..MaxAdds}
    \cup {"async_gen_" \o ToString(n) : n \in 0..MaxAdds}

\* (a put that jumps the queue)
QueuePutFront(q, e) == <<e>> \o q
\* asyncio.Queue.put_nowait on the FIFO queue
QueuePut(q, e) == Append(q, e)
\* asyncio.Queue.get_nowait
QueueHead(q) == Head(q)
QueueRest(q) == Tail(q)

(***************************************************************************)
(* add_generator / add_async_generator                                     *)
(***************************************************************************)
\* the consumer is inside the while loop of merge()
Consuming == mpc \in {"get", "yielded", "recheck"}

AddTo(type, gid) ==
  /\ adds < MaxAdds
  /\ adds' = adds + 1
  /\ IF gid \in generators \/ gid \in asyncGenerators
     THEN \* raise ValueError
          /\ lastAdd' = "ValueError"
          /\ UNCHANGED <<generators, asyncGenerators, lateAdded>>
     ELSE /\ lastAdd' = "ok"
          /\ lateAdded' = IF Consuming THEN lateAdded \cup {gid} ELSE lateAdded
          /\ IF type = "sync"
             THEN generators' = generators \cup {gid}
                  /\ UNCHANGED asyncGenerators
             ELSE asyncGenerators' = asyncGenerators \cup {gid}
                  /\ UNCHANGED generators
  /\ UNCHANGED <<runningTasks, queue, activeCount, processed, hasCallback,
                 mpc, delivered, callbackLog,
                 notMerger>>

add_generator ==
  \E arg \in SyncIdArgs :
    AddTo("sync", IF arg = "None" THEN SyncAutoId ELSE arg)

add_async_generator ==
  \E arg \in AsyncIdArgs :
    AddTo("async", IF arg = "None" THEN AsyncAutoId ELSE arg)

(***************************************************************************)
(* Producer task: _run_generator_with_wrapper                              *)
(***************************************************************************)
TaskIdx == 1..Len(runningTasks)

RECURSIVE ItemsPut(_)
\* number of items the tasks have put on the queue so far
ItemsPut(tasks) ==
  IF tasks = <<>> THEN 0 ELSE Head(tasks).n + ItemsPut(Tail(tasks))

SetTask(i, st, n) ==
  [runningTasks EXCEPT ![i] = [@ EXCEPT !.st = st, !.n = n]]

\* async with self._lock: self._active_count += 1
WrapperStart(i) ==
  /\ runningTasks[i].st = "created"
  /\ activeCount' = activeCount + 1
  /\ runningTasks' = SetTask(i, "running", 0)
  /\ UNCHANGED <<generators, asyncGenerators, queue, processed, hasCallback,
                 mpc, adds, lastAdd, delivered, callbackLog, lateAdded,
                 notMerger>>

\* async for item in generator_executor(): await self._queue.put(item)
WrapperPut(i) ==
  /\ runningTasks[i].st = "running"
  /\ ItemsPut(runningTasks) < MaxItems
  /\ queue' = QueuePut(queue, Item(runningTasks[i].id, runningTasks[i].n + 1))
  /\ runningTasks' = SetTask(i, "running", runningTasks[i].n + 1)
  /\ UNCHANGED <<generators, asyncGenerators, activeCount, processed,
                 hasCallback, mpc, adds, lastAdd, delivered, callbackLog, lateAdded,
                 notMerger>>

\* (a finally block that forgets the counter)
ActiveCountKept(c) == c
\* async with self._lock: self._active_count -= 1
ActiveCountDecrement(c) == c - 1

\* the finally block and _notify_generator_complete, on the queue q the
\* except block leaves
WrapperFinally(i, q, status) ==
  LET t == runningTasks[i] IN
  /\ activeCount' = ActiveCountDecrement(activeCount)
  /\ processed' = processed \cup {t.id}
  /\ generators' = IF t.type = "sync" THEN generators \ {t.id} ELSE generators
  /\ asyncGenerators' = IF t.type = "async" THEN asyncGenerators \ {t.id}
                        ELSE asyncGenerators
  /\ IF hasCallback
     THEN /\ callbackLog' = [callbackLog EXCEPT ![t.id] = @ + 1]
          /\ queue' = q
          /\ runningTasks' = SetTask(i, "callback", t.n)
     ELSE /\ queue' = QueuePut(q, EventSentinel(t.id, status))
          /\ runningTasks' = SetTask(i, "done", t.n)
          /\ UNCHANGED callbackLog
  /\ UNCHANGED <<hasCallback, mpc, adds, lastAdd, delivered, lateAdded,
                 notMerger>>

\* the generator is exhausted
WrapperComplete(i) ==
  /\ runningTasks[i].st = "running"
  /\ WrapperFinally(i, queue, "completed")

\* the generator raises: except Exception puts the error sentinel
WrapperRaise(i) ==
  /\ runningTasks[i].st = "running"
  /\ WrapperFinally(i, QueuePut(queue, ErrorSentinel(runningTasks[i].id)),
                    "error")

\* the awaited on_generator_complete callback returns
CallbackReturn(i) ==
  /\ runningTasks[i].st = "callback"
  /\ runningTasks' = SetTask(i, "done", runningTasks[i].n)
  /\ UNCHANGED <<generators, asyncGenerators, queue, activeCount, processed,
                 hasCallback, mpc, adds, lastAdd, delivered, callbackLog, lateAdded,
                 notMerger>>

(***************************************************************************)
(* Consumer: merge()                                                       *)
(***************************************************************************)
\* any(task.get_name() == f"{type}_{id}" and not task.done() for task in ...)
TaskExists(tasks, type, id) ==
  \E i \in 1..Len(tasks) :
    tasks[i].type = type /\ tasks[i].id = id /\ tasks[i].st # "done"

RECURSIVE SpawnAll(_, _, _)
SpawnAll(tasks, type, ids) ==
  IF ids = <<>> THEN tasks
  ELSE SpawnAll(Append(tasks, NewTask(type, Head(ids))), type, Tail(ids))

\* ids registered, not processed, and without a live task
NewIds(registered, type) ==
  {g \in registered : g \notin processed /\ ~TaskExists(runningTasks, type, g)}

\* (a test that forgets the processed set)
AllDoneActiveOnly == activeCount = 0
\* self._active_count == 0 and all_generators.issubset(processed)
AllDone ==
  activeCount = 0 /\ (generators \cup asyncGenerators) \subseteq processed

\* merge() is called and runs to its first suspension point.  It is called
\* on a new merger, and again after the previous stream has ended normally
\* (Orchestrator.run calls merger.merge() in a loop).  The histories are kept
\* per stream.
MergeCall ==
  /\ mpc \in {"init", "done"}
  /\ IF generators = {} /\ asyncGenerators = {}
     THEN /\ mpc' = "done"
          /\ UNCHANGED <<runningTasks, queue, activeCount, processed,
                         delivered, callbackLog, lateAdded>>
     ELSE /\ queue' = <<>>
          /\ activeCount' = 0
          /\ processed' = {}
          /\ runningTasks' =
               SpawnAll(SpawnAll(<<>>, "sync", SetToSeq(generators)),
                        "async", SetToSeq(asyncGenerators))
          /\ delivered' = [g \in AllIds |-> <<>>]
          /\ callbackLog' = [g \in AllIds |-> 0]
          /\ lateAdded' = {}
          \* first pass of the loop: no new generator, all_done is false
          /\ mpc' = "get"
  /\ UNCHANGED <<generators, asyncGenerators, hasCallback, adds, lastAdd,
                 notMerger>>

\* top of the while loop down to sleep(0) or wait_for: spawn a task for every
\* newly registered generator, then test all_done
LoopTop ==
  /\ runningTasks' =
       SpawnAll(SpawnAll(runningTasks, "sync",
                         SetToSeq(NewIds(generators, "sync"))),
                "async", SetToSeq(NewIds(asyncGenerators, "async")))
  /\ lateAdded' = lateAdded \ (NewIds(generators, "sync")
                                \cup NewIds(asyncGenerators, "async"))
  /\ mpc' = IF AllDone THEN "recheck" ELSE "get"

\* after await asyncio.sleep(0): the second test of all_done
Recheck ==
  /\ mpc = "recheck"
  /\ mpc' = IF AllDone THEN "gather" ELSE "get"
  /\ UNCHANGED <<generators, asyncGenerators, runningTasks, queue,
                 activeCount, processed, hasCallback, adds, lastAdd,
                 delivered, callbackLog, lateAdded,
                 notMerger>>

\* wait_for(self._queue.get(), timeout=0.01) returns an item
Get ==
  /\ mpc = "get"
  /\ queue # <<>>
  /\ LET item == QueueHead(queue) IN
       /\ queue' = QueueRest(queue)
       /\ IF item.kind = "__error__"
          THEN mpc' = "raised" /\ UNCHANGED delivered
          ELSE /\ mpc' = "yielded"
               /\ delivered' = [delivered EXCEPT ![item.id] = Append(@, item)]
  /\ UNCHANGED <<generators, asyncGenerators, runningTasks, activeCount,
                 processed, hasCallback, adds, lastAdd, callbackLog, lateAdded,
                 notMerger>>

\* wait_for times out on the empty queue: continue, into the next pass
GetTimeout ==
  /\ mpc = "get"
  /\ queue = <<>>
  /\ LoopTop
  /\ UNCHANGED <<generators, asyncGenerators, queue, activeCount, processed,
                 hasCallback, adds, lastAdd, delivered, callbackLog,
                 notMerger>>

\* the consumer asks for the next item: merge() resumes after its yield and
\* runs the next pass
Resume ==
  /\ mpc = "yielded"
  /\ LoopTop
  /\ UNCHANGED <<generators, asyncGenerators, queue, activeCount, processed,
                 hasCallback, adds, lastAdd, delivered, callbackLog,
                 notMerger>>

\* await asyncio.gather(*self._running_tasks, return_exceptions=True)
Gather ==
  /\ mpc = "gather"
  /\ \A i \in TaskIdx : runningTasks[i].st = "done"
  /\ mpc' = "done"
  /\ UNCHANGED <<generators, asyncGenerators, runningTasks, queue,
                 activeCount, processed, hasCallback, adds, lastAdd,
                 delivered, callbackLog, lateAdded,
                 notMerger>>

(***************************************************************************)
(* Channel: send_request / set_response                                    *)
(***************************************************************************)
\* f"req_{self._request_counter}"
AutoRequestId(counter) == "req_" \o ToString(counter)

\* every request id that can occur
AllRequestIds ==
  (RequestIdArgs \ {"None"}) \cup {AutoRequestId(n) : n \in 1..MaxCalls}

CallIdx == 1..Len(calls)

\* asyncio.Future()
NewFuture == [st |-> "pending", val |-> "None"]
\* future.done(): a result, an exception or a cancellation has been set
FutureDone(f) == f.st # "pending"

\* (the branches of set_response the wrong way round)
ResolvedFutureSwapped(data, error) ==
  IF error # "None" THEN [st |-> "result", val |-> data]
  ELSE [st |-> "exception", val |-> error]
\* if error: future.set_exception(Exception(error))
\* else: future.set_result(data)
ResolvedFuture(data, error) ==
  IF error # "None" THEN [st |-> "exception", val |-> error]
  ELSE [st |-> "result", val |-> data]

\* (a removal that is forgotten)
PopPendingSkipped(pending, rid) == pending
\* self._pending_requests.pop(request_id, None)
PopPending(pending, rid) == [pending EXCEPT ![rid] = 0]

\* send_request up to its first suspension point: the id, the future, the
\* table entry; then the send handler (on_send or self._on_send) if any
SendRequest(arg, timeout, handler) ==
  LET rid == IF arg = "None" THEN AutoRequestId(requestCounter + 1) ELSE arg
      f == Len(futures) + 1
  IN
  /\ Len(calls) < MaxCalls
  /\ requestCounter' = IF arg = "None" THEN requestCounter + 1
                       ELSE requestCounter
  /\ futures' = Append(futures, NewFuture)
  /\ firstResponse' = Append(firstResponse,
                             [set |-> FALSE, data |-> "None", error |-> "None",
                              at |-> "none"])
  /\ pendingRequests' = [pendingRequests EXCEPT ![rid] = f]
  /\ calls' = Append(calls,
                     [rid |-> rid, fut |-> f,
                      pc |-> IF handler THEN "on_send" ELSE "wait",
                      timeout |-> timeout, wake |-> "none",
                      outcomes |-> <<>>])
  /\ UNCHANGED <<ignoredResponse, notChannel>>

\* the call c leaves send_request with an outcome: the except blocks and the
\* finally block remove the entry stored under its request id; the call's
\* timer and wake-up are gone
EndCall(c, kind, val) ==
  /\ calls' = [calls EXCEPT ![c].pc = "ended",
                            ![c].timeout = FALSE,
                            ![c].wake = "none",
                            ![c].outcomes = Append(@, [kind |-> kind,
                                                       val |-> val])]
  /\ pendingRequests' = PopPending(pendingRequests, calls[c].rid)

\* a send_request that makes its future only when the handler has returned
OnSendReturnNewFuture(c) ==
  /\ calls[c].pc = "on_send"
  /\ calls[c].wake = "none"
  /\ calls' = [calls EXCEPT ![c].pc = "wait"]
  /\ futures' = [futures EXCEPT ![calls[c].fut] = NewFuture]
  /\ UNCHANGED <<pendingRequests, requestCounter, firstResponse,
                 ignoredResponse, notChannel>>

\* await send_handler(...) returns: the call goes on to wait for the future.
\* Awaiting a future that is done already does not suspend (wait_for hands
\* on its result or exception whatever its timer does): the call ends in the
\* same step.
OnSendReturn(c) ==
  LET f == futures[calls[c].fut] IN
  /\ calls[c].pc = "on_send"
  /\ calls[c].wake = "none"
  /\ IF FutureDone(f)
     THEN EndCall(c, IF f.st = "result" THEN "result" ELSE "error", f.val)
     ELSE /\ calls' = [calls EXCEPT ![c].pc = "wait"]
          /\ UNCHANGED pendingRequests
  /\ UNCHANGED <<requestCounter, futures, firstResponse, ignoredResponse,
                 notChannel>>

\* await send_handler(...) raises: except Exception, finally
OnSendRaise(c) ==
  /\ calls[c].pc = "on_send"
  /\ calls[c].wake = "none"
  /\ EndCall(c, "send_error", "None")
  /\ UNCHANGED <<requestCounter, futures, firstResponse, ignoredResponse,
                 notChannel>>

\* the task running send_request is cancelled: the future it awaits, if it
\* awaits one that is pending, is cancelled with it
CancelCaller(c) ==
  /\ calls[c].pc \in {"on_send", "wait"}
  /\ calls[c].wake = "none"
  /\ calls' = [calls EXCEPT ![c].wake = "cancel"]
  /\ futures' = IF calls[c].pc = "wait" /\ ~FutureDone(futures[calls[c].fut])
                THEN [futures EXCEPT ![calls[c].fut].st = "cancelled"]
                ELSE futures
  /\ UNCHANGED <<pendingRequests, requestCounter, firstResponse,
                 ignoredResponse, notChannel>>

\* the timeout of asyncio.wait_for(future, timeout) expires: a pending future
\* is cancelled
TimeoutExpires(c) ==
  /\ calls[c].pc = "wait"
  /\ calls[c].timeout
  /\ calls[c].wake = "none"
  /\ calls' = [calls EXCEPT ![c].wake = "timeout"]
  /\ futures' = IF ~FutureDone(futures[calls[c].fut])
                THEN [futures EXCEPT ![calls[c].fut].st = "cancelled"]
                ELSE futures
  /\ UNCHANGED <<pendingRequests, requestCounter, firstResponse,
                 ignoredResponse, notChannel>>

\* the coroutine is resumed with CancelledError (not an Exception): finally
CallCancelled(c) ==
  /\ calls[c].pc \in {"on_send", "wait"}
  /\ calls[c].wake = "cancel"
  /\ EndCall(c, "cancelled", "None")
  /\ UNCHANGED <<requestCounter, futures, firstResponse, ignoredResponse,
                 notChannel>>

\* the coroutine is resumed from its wait for the future
WaitReturn(c) ==
  LET f == futures[calls[c].fut] IN
  /\ calls[c].pc = "wait"
  /\ calls[c].wake # "cancel"
  /\ \/ \* return (request_id, response), finally
        /\ f.st = "result"
        /\ EndCall(c, "result", f.val)
     \/ \* the future's exception: except Exception, finally
        /\ f.st = "exception"
        /\ EndCall(c, "error", f.val)
     \/ \* except asyncio.TimeoutError: raise TimeoutError. When the timeout
        \* expires on a future that is already resolved, wait_for returns the
        \* result or raises, depending on the Python version.
        /\ calls[c].wake = "timeout"
        /\ EndCall(c, "timeout", "None")
  /\ UNCHANGED <<requestCounter, futures, firstResponse, ignoredResponse,
                 notChannel>>

\* set_response(request_id, data, error)
set_response(rid, data, error) ==
  /\ IF pendingRequests[rid] = 0
     THEN \* not in self._pending_requests: return
          UNCHANGED <<futures, firstResponse, ignoredResponse>>
     ELSE LET f == pendingRequests[rid] IN
          IF FutureDone(futures[f])
          THEN \* already set: return
               /\ ignoredResponse' = IF ignoredResponse = 0 THEN f
                                     ELSE ignoredResponse
               /\ UNCHANGED <<futures, firstResponse>>
          ELSE /\ futures' = [futures EXCEPT ![f] = ResolvedFuture(data, error)]
               /\ firstResponse' =
                    [firstResponse EXCEPT ![f] =
                       [set |-> TRUE, data |-> data, error |-> error,
                        at |-> calls[f].pc]]
               /\ UNCHANGED ignoredResponse
  /\ UNCHANGED <<pendingRequests, requestCounter, calls, notChannel>>

(***************************************************************************)
(* Part 3: Orchestrator.run, LocalRunner and the agent's step loop as the  *)
(* runner sees it                                                          *)
(*                                                                         *)
(* One call of run() is modelled.  The merger of run() and the merger of   *)
(* each runner are the GeneratorMerger of part 1 with a callback; here     *)
(* only their queue, registry, processed set and loop position are kept.   *)
(* The consumer of a merge() suspends at queue.get() and at its yield      *)
(* only: from an item back to queue.get() (the next pass of the loop, the  *)
(* new tasks, the all_done test and its re-check after sleep(0), in which  *)
(* no coroutine changes what the test reads) is one step.                  *)
(***************************************************************************)
\* client tool calls the agents of one task tree make at most; the n-th call
\* has tool_call_id n, and the child task made for it is ChildNames[n]
MaxChildren == 2
\* AgentConfig.max_steps
MaxSteps == 2

\* messages sent to a runner while its agent runs
MaxSends == 1

\* task ids: run() makes "root_<uuid>", _handle_client_tool_call "child_<uuid>"
ChildNames == <<"child_1", "child_2", "child_3", "child_4">>
TopId == "root"
TaskIds == {TopId} \cup {ChildNames[n] : n \in 1..MaxChildren}
ToolCallIds == 1..MaxChildren

\* (root_task_id, parent_task_id) of the REQUEST event given to run(): a new
\* conversation, or a task that belongs to a tree held elsewhere
RequestArgs == {<<"None", "None">>, <<"ext_root", "ext_parent">>}
Modes == {"multi", "single"}
\* what one round of the step loop comes to: the model answers without tool
\* calls (FINISHED), the round fails (ERROR response), the agent's generator
\* raises, or the model calls a client tool of type AGENT or TOOL
Outcomes == {"final", "error", "raise", "agent", "tool"}

NoEvent ==
  [type |-> "none", task_id |-> "None", parent_task_id |-> "None",
   root_task_id |-> "None", tool_call_id |-> 0, call_type |-> "none"]

\* the RESPONSE event LocalRunner.run makes of an AgentResponse
ResponseEvent(t) ==
  [type |-> "response", task_id |-> t,
   parent_task_id |-> localRunner[t].parent_task_id,
   root_task_id |-> localRunner[t].root_task_id,
   tool_call_id |-> 0, call_type |-> "none"]

\* the CLIENT_TOOL_CALL event of LocalRunner._on_client_tool_send
ClientToolCallEvent(t, n, ctype) ==
  [type |-> "client_tool_call", task_id |-> t,
   parent_task_id |-> localRunner[t].parent_task_id,
   root_task_id |-> localRunner[t].root_task_id,
   tool_call_id |-> n, call_type |-> ctype]

\* the ("__error__", e) tuple a wrapper puts when its generator raised
RaisedSentinel(t) ==
  [type |-> "__error__", task_id |-> t, parent_task_id |-> "None",
   root_task_id |-> "None", tool_call_id |-> 0, call_type |-> "none"]

NoFuture == [id |-> 0, st |-> "none"]
NoCompletion == [branch |-> "none", failed |-> FALSE, resolved |-> FALSE]

\* the id under which the generator of task t is registered with run()'s
\* merger: run_root_runner uses root_task_id, the children their task id
GenOf(t) == IF t = TopId THEN rootTaskId ELSE t

\* a runner that takes the root id for the parent id
NewRunnerIdsSwapped(parent, root, tcid) ==
  [parent_task_id |-> root, root_task_id |-> parent, tool_call_id |-> tcid,
   result |-> "None"]

\* LocalRunner(...) as _create_runner constructs it
NewRunner(parent, root, tcid) ==
  [parent_task_id |-> parent, root_task_id |-> root, tool_call_id |-> tcid,
   result |-> "None"]

\* merge() of run()'s merger creates a wrapper task for every registered id
\* that is not processed and has no running task; the task starts the
\* runner's run(), which starts the agent
Spawnable(registry, done) ==
  {t \in TaskIds : /\ GenOf(t) \in registry
                   /\ GenOf(t) \notin done
                   /\ omTasks[t] # "running"}

OmSpawn(S) ==
  /\ omTasks' = [t \in TaskIds |-> IF t \in S THEN "running" ELSE omTasks[t]]
  /\ agentPc' = [t \in TaskIds |-> IF t \in S THEN "step" ELSE agentPc[t]]
  /\ currentRound' = [t \in TaskIds |-> IF t \in S THEN 0 ELSE currentRound[t]]
  /\ lmQueue' = [t \in TaskIds |-> IF t \in S THEN <<>> ELSE lmQueue[t]]

\* Orchestrator.run up to the first suspension of merger.merge()
run(rootArg, parentArg, m) ==
  /\ runPc = "new"
  /\ LET root == IF rootArg = "None" THEN TopId ELSE rootArg IN
       /\ orchMode' = m
       /\ rootTaskId' = root
       /\ runners' = {TopId}
       /\ taskToRoot' = [taskToRoot EXCEPT ![TopId] = root]
       /\ taskToParent' = [taskToParent EXCEPT ![TopId] = parentArg]
       /\ localRunner' = [localRunner EXCEPT ![TopId] = NewRunner(parentArg, root, 0)]
       /\ mergers' = {root}
       /\ omAsyncGenerators' = {root}
  /\ needRunRootRunner' = FALSE
  /\ omTasks' = [omTasks EXCEPT ![TopId] = "running"]
  /\ agentPc' = [agentPc EXCEPT ![TopId] = "step"]
  /\ runPc' = "get"
  /\ UNCHANGED <<runnerTaskIds, currentRound, toolFuture, toolCalls, callOwner,
                 omProcessed, omQueue, lmQueue, yielded, completion, notOrch>>

\* Orchestrator._cleanup_runner
CleanupRunner(t) ==
  /\ runners' = runners \ {t}
  /\ taskToRoot' = [taskToRoot EXCEPT ![t] = "None"]
  /\ taskToParent' = [taskToParent EXCEPT ![t] = "None"]
  /\ runnerTaskIds' = runnerTaskIds \ {t}
  /\ mergers' = mergers \ {t}

\* all_done of run()'s merger, for the registry the consumer finds
OmAllDone(registry) ==
  /\ Spawnable(registry, omProcessed) = {}
  /\ \A t \in TaskIds : omTasks[t] # "running"
  /\ registry \subseteq omProcessed

\* the next pass of the loop of merger.merge() in run(), with the registry,
\* the queue and need_run_root_runner the step has left; created: the step
\* has made a child runner.  New tasks are created and the consumer waits at
\* queue.get() again, or merge() ends and run() runs the root runner once
\* more or ends.
OmLoopTop(registry, q, need, created) ==
  IF OmAllDone(registry) /\ ~need
  THEN /\ CleanupRunner(TopId)
       /\ runPc' = "ended"
       /\ omQueue' = q
       /\ omAsyncGenerators' = registry
       /\ UNCHANGED <<needRunRootRunner, omProcessed, omTasks, agentPc,
                      currentRound, lmQueue>>
  ELSE /\ IF created
          THEN TRUE
          ELSE UNCHANGED <<runners, taskToRoot, taskToParent, mergers,
                           runnerTaskIds>>
       /\ IF ~OmAllDone(registry)
          THEN /\ OmSpawn(Spawnable(registry, omProcessed))
               /\ omAsyncGenerators' = registry
               /\ omQueue' = q
               /\ needRunRootRunner' = need
               /\ runPc' = "get"
               /\ UNCHANGED omProcessed
          ELSE IF rootTaskId \in registry
          THEN \* add_async_generator raises ValueError: id already registered
               /\ runPc' = "raised"
               /\ needRunRootRunner' = FALSE
               /\ omAsyncGenerators' = registry
               /\ omQueue' = q
               /\ UNCHANGED <<omProcessed, omTasks, agentPc, currentRound,
                              lmQueue>>
          ELSE \* run_root_runner, then merge() again, which resets its state
               /\ needRunRootRunner' = FALSE
               /\ omAsyncGenerators' = registry \cup {rootTaskId}
               /\ omProcessed' = {}
               /\ omQueue' = <<>>
               /\ OmSpawn(Spawnable(registry \cup {rootTaskId}, {}))
               /\ runPc' = "get"

\* await queue.get() in merger.merge() returns or times out, and the body of
\* run()'s loop for the item: re-raise, make a child runner, or yield
MergeGet ==
  /\ runPc = "get"
  /\ IF omQueue = <<>>
     THEN /\ OmLoopTop(omAsyncGenerators, omQueue, needRunRootRunner, FALSE)
          /\ UNCHANGED <<localRunner, yielded>>
     ELSE LET e == Head(omQueue)
              q == Tail(omQueue)
              c == ChildNames[e.tool_call_id]
          IN
          IF e.type = "__error__"
          THEN /\ runPc' = "raised"
               /\ omQueue' = q
               /\ UNCHANGED <<needRunRootRunner, runners, taskToRoot,
                              taskToParent, mergers, runnerTaskIds, localRunner,
                              omAsyncGenerators, omProcessed, omTasks, agentPc,
                              currentRound, lmQueue, yielded>>
          ELSE IF /\ orchMode = "multi"
                  /\ e.type = "client_tool_call"
                  /\ e.call_type = "agent"
          THEN \* _handle_client_tool_call; known: the agent factory has a
               \* default config for the agent the call names
               /\ \E known \in BOOLEAN :
                    IF ~known
                    THEN /\ OmLoopTop(omAsyncGenerators, q, TRUE, FALSE)
                         /\ UNCHANGED localRunner
                    ELSE /\ runners' = runners \cup {c}
                         /\ taskToRoot' = [taskToRoot EXCEPT ![c] = rootTaskId]
                         /\ taskToParent' = [taskToParent EXCEPT ![c] = e.task_id]
                         /\ localRunner' =
                              [localRunner EXCEPT
                                 ![c] = NewRunner(e.task_id, rootTaskId,
                                                  e.tool_call_id)]
                         /\ IF rootTaskId \notin mergers
                            THEN \* raise ValueError("Cannot find merger ...")
                                 /\ runPc' = "raised"
                                 /\ omQueue' = q
                                 /\ UNCHANGED <<needRunRootRunner, mergers,
                                                runnerTaskIds, omAsyncGenerators,
                                                omProcessed, omTasks, agentPc,
                                                currentRound, lmQueue>>
                            ELSE /\ runnerTaskIds' = runnerTaskIds \cup {c}
                                 /\ UNCHANGED mergers
                                 /\ OmLoopTop(omAsyncGenerators \cup {c}, q,
                                              TRUE, TRUE)
               /\ UNCHANGED yielded
          ELSE /\ yielded' = e
               /\ runPc' = "yielded"
               /\ omQueue' = q
               /\ UNCHANGED <<needRunRootRunner, runners, taskToRoot,
                              taskToParent, mergers, runnerTaskIds, localRunner,
                              omAsyncGenerators, omProcessed, omTasks, agentPc,
                              currentRound, lmQueue>>
  /\ UNCHANGED <<orchMode, rootTaskId, toolFuture, toolCalls, callOwner,
                 completion, notOrch>>

\* the consumer of run() asks for the next event
ResumeRun ==
  /\ runPc = "yielded"
  /\ yielded' = NoEvent
  /\ OmLoopTop(omAsyncGenerators, omQueue, needRunRootRunner, FALSE)
  /\ UNCHANGED <<orchMode, rootTaskId, localRunner, toolFuture, toolCalls,
                 callOwner, completion, notOrch>>

\* the consumer of run() goes away: the SSE response is closed (aclose() at
\* the yield) or websocket_handler cancels the task that iterates run()
CloseConsumer ==
  /\ runPc \in {"get", "yielded"}
  /\ runPc' = "closed"
  /\ UNCHANGED <<orchMode, rootTaskId, needRunRootRunner, runners, taskToRoot,
                 taskToParent, mergers, runnerTaskIds, localRunner, agentPc,
                 currentRound, toolFuture, toolCalls, callOwner,
                 omAsyncGenerators, omProcessed, omTasks, omQueue, lmQueue,
                 yielded, completion, notOrch>>

\* ---- the agent of task t, run by LocalRunner.run's agent_generator ----

\* the step loop after a tool call has ended: the tool-result response, then
\* the next round, or the STOPPED response when max_steps is reached
AfterToolCall(t) ==
  /\ toolFuture' = [toolFuture EXCEPT ![t] = NoFuture]
  /\ IF currentRound[t] >= MaxSteps
     THEN /\ lmQueue' = [lmQueue EXCEPT
                           ![t] = @ \o <<ResponseEvent(t), ResponseEvent(t)>>]
          /\ agentPc' = [agentPc EXCEPT ![t] = "ended"]
     ELSE /\ lmQueue' = [lmQueue EXCEPT ![t] = Append(@, ResponseEvent(t))]
          /\ agentPc' = [agentPc EXCEPT ![t] = "step"]

\* one round of BaseStepAgent._run up to its end or to the wait of a client
\* tool call, with what LocalRunner does for the responses of that round
AgentStep(t, outcome) ==
  /\ agentPc[t] = "step"
  /\ currentRound[t] < MaxSteps
  /\ currentRound' = [currentRound EXCEPT ![t] = @ + 1]
  /\ CASE outcome = "final" ->
            \* _on_agent_finished keeps the result, the response is yielded
            /\ localRunner' = [localRunner EXCEPT ![t].result = "set"]
            /\ lmQueue' = [lmQueue EXCEPT ![t] = Append(@, ResponseEvent(t))]
            /\ agentPc' = [agentPc EXCEPT ![t] = "ended"]
            /\ UNCHANGED <<toolFuture, toolCalls, callOwner>>
       [] outcome = "error" ->
            /\ lmQueue' = [lmQueue EXCEPT ![t] = Append(@, ResponseEvent(t))]
            /\ agentPc' = [agentPc EXCEPT ![t] = "ended"]
            /\ UNCHANGED <<localRunner, toolFuture, toolCalls, callOwner>>
       [] outcome = "raise" ->
            \* the wrapper of the runner's merger puts the error sentinel
            /\ lmQueue' = [lmQueue EXCEPT ![t] = Append(@, RaisedSentinel(t))]
            /\ agentPc' = [agentPc EXCEPT ![t] = "ended"]
            /\ UNCHANGED <<localRunner, toolFuture, toolCalls, callOwner>>
       [] outcome \in {"agent", "tool"} ->
            \* the response with tool_calls is yielded; send_request stores
            \* the future and calls _on_client_tool_send, whose generator
            \* yields the CLIENT_TOOL_CALL event; the agent waits
            /\ toolCalls < MaxChildren
            /\ toolCalls' = toolCalls + 1
            /\ callOwner' = [callOwner EXCEPT ![toolCalls + 1] = t]
            /\ toolFuture' = [toolFuture EXCEPT
                                ![t] = [id |-> toolCalls + 1, st |-> "pending"]]
            /\ lmQueue' = [lmQueue EXCEPT
                             ![t] = @ \o <<ResponseEvent(t),
                                           ClientToolCallEvent(t, toolCalls + 1,
                                                               outcome)>>]
            /\ agentPc' = [agentPc EXCEPT ![t] = "call"]
            /\ UNCHANGED localRunner
  /\ UNCHANGED <<runPc, orchMode, rootTaskId, needRunRootRunner, runners,
                 taskToRoot, taskToParent, mergers, runnerTaskIds,
                 omAsyncGenerators, omProcessed, omTasks, omQueue, yielded,
                 completion, notOrch>>

\* the future of the tool call is resolved: send_request returns or raises,
\* _execute_single_tool makes the tool message
ToolReturn(t) ==
  /\ agentPc[t] = "call"
  /\ toolFuture[t].st \in {"result", "error"}
  /\ AfterToolCall(t)
  /\ UNCHANGED <<runPc, orchMode, rootTaskId, needRunRootRunner, runners,
                 taskToRoot, taskToParent, mergers, runnerTaskIds, localRunner,
                 currentRound, toolCalls, callOwner, omAsyncGenerators,
                 omProcessed, omTasks, omQueue, yielded, completion,
                 notOrch>>

\* the timeout of send_request expires: TimeoutError, made a tool message
ToolTimeout(t) ==
  /\ agentPc[t] = "call"
  /\ toolFuture[t].st = "pending"
  /\ AfterToolCall(t)
  /\ UNCHANGED <<runPc, orchMode, rootTaskId, needRunRootRunner, runners,
                 taskToRoot, taskToParent, mergers, runnerTaskIds, localRunner,
                 currentRound, toolCalls, callOwner, omAsyncGenerators,
                 omProcessed, omTasks, omQueue, yielded, completion,
                 notOrch>>

\* Orchestrator.send_event with a CLIENT_TOOL_RESULT for tool call n, from the
\* client of run(); LocalRunner.send hands it to the channel's set_response
send_event(n, error) ==
  /\ n <= toolCalls
  /\ callOwner[n] \in runners
  /\ toolFuture[callOwner[n]] = [id |-> n, st |-> "pending"]
  /\ toolFuture' = [toolFuture EXCEPT
                      ![callOwner[n]].st = IF error THEN "error" ELSE "result"]
  /\ UNCHANGED <<runPc, orchMode, rootTaskId, needRunRootRunner, runners,
                 taskToRoot, taskToParent, mergers, runnerTaskIds, localRunner,
                 agentPc, currentRound, toolCalls, callOwner,
                 omAsyncGenerators, omProcessed, omTasks, omQueue, lmQueue,
                 yielded, completion, notOrch>>

\* ---- the stream of runner t: the loop of its own merger's merge() inside
\* ---- the wrapper task that run()'s merger made for it

\* a completion callback that drops the runner of a child whose parent is
\* registered, without the send
CallbackBranchNoSend(g, failed) ==
  IF g \notin runners THEN "no_runner"
  ELSE IF orchMode = "single" THEN "single"
  ELSE IF taskToParent[g] = "None" THEN "root"
  ELSE "orphan"

\* Orchestrator._on_generator_complete: the branch it takes for generator g
CallbackBranch(g, failed) ==
  IF g \notin runners THEN "no_runner"
  ELSE IF orchMode = "single" THEN "single"
  ELSE IF taskToParent[g] = "None" THEN "root"
  ELSE IF taskToParent[g] \notin runners THEN "orphan"
  \* an error AgentResponse has no message: LocalRunner.send raises
  \* AttributeError on result.message.tool_call_id
  ELSE IF failed THEN "send_raised"
  ELSE "sent"

\* _notify_generator_complete of run()'s merger with the orchestrator's
\* callback for the generator of task t; failed: the stream raised or the
\* runner has no result
NotifyGeneratorComplete(t, failed) ==
  LET g == GenOf(t)
      br == CallbackBranch(g, failed)
      p == taskToParent[t]
      resolves == /\ br = "sent"
                  /\ toolFuture[p] = [id |-> localRunner[t].tool_call_id,
                                      st |-> "pending"]
  IN /\ IF br \in {"single", "orphan", "sent"}
        THEN CleanupRunner(t)
        ELSE UNCHANGED <<runners, taskToRoot, taskToParent, runnerTaskIds,
                         mergers>>
     /\ toolFuture' = IF resolves
                      THEN [toolFuture EXCEPT ![p].st = "result"]
                      ELSE toolFuture
     /\ completion' = [completion EXCEPT
                         ![t] = [branch |-> br, failed |-> failed,
                                 resolved |-> resolves]]

\* a wrapper that notifies and goes on with its loop
WrapperEndStillRunning(t, raised) ==
  /\ lmQueue' = [lmQueue EXCEPT ![t] = IF @ = <<>> THEN @ ELSE Tail(@)]
  /\ UNCHANGED <<omTasks, omProcessed, omAsyncGenerators, agentPc>>
  /\ NotifyGeneratorComplete(t, raised \/ localRunner[t].result = "None")

\* the wrapper task of runner t ends: finally, then the notification; what
\* the runner's queue still holds is never read
WrapperEnd(t, raised) ==
  /\ omTasks' = [omTasks EXCEPT ![t] = "done"]
  /\ omProcessed' = omProcessed \cup {GenOf(t)}
  /\ omAsyncGenerators' = omAsyncGenerators \ {GenOf(t)}
  /\ agentPc' = [agentPc EXCEPT ![t] = "idle"]
  /\ lmQueue' = [lmQueue EXCEPT ![t] = <<>>]
  /\ NotifyGeneratorComplete(t, raised \/ localRunner[t].result = "None")

\* the loop body of the wrapper of run()'s merger for an item of the runner's
\* stream: the item is put on the queue
RelayItem(t) ==
  /\ omQueue' = Append(omQueue, Head(lmQueue[t]))
  /\ lmQueue' = [lmQueue EXCEPT ![t] = Tail(@)]
  /\ UNCHANGED <<runners, taskToRoot, taskToParent, mergers, runnerTaskIds,
                 toolFuture, completion>>
  /\ UNCHANGED <<agentPc, omAsyncGenerators, omProcessed, omTasks>>

\* await queue.get() of the runner's merge() returns an item: it goes on to
\* the queue of run()'s merger, and the runner's loop comes to all_done when
\* the agent generator has ended, whatever is left in its queue; the error
\* sentinel is raised by merge() and the wrapper of run()'s merger turns it
\* into its own sentinel.  An agent generator ends in the step of its last
\* response, so the queue is never empty when the stream ends.
RunnerGet(t) ==
  /\ omTasks[t] = "running"
  /\ lmQueue[t] # <<>>
  /\ IF Head(lmQueue[t]).type = "__error__"
     THEN /\ omQueue' = Append(omQueue, RaisedSentinel(t))
          /\ WrapperEnd(t, TRUE)
     ELSE IF agentPc[t] = "ended"
     THEN /\ omQueue' = Append(omQueue, Head(lmQueue[t]))
          /\ WrapperEnd(t, FALSE)
     ELSE RelayItem(t)
  /\ UNCHANGED <<runPc, orchMode, rootTaskId, needRunRootRunner, localRunner,
                 currentRound, toolCalls, callOwner, yielded, notOrch>>

OrchInit ==
  /\ runPc = "new"
  /\ orchMode = "multi"
  /\ rootTaskId = "None"
  /\ needRunRootRunner = FALSE
  /\ runners = {}
  /\ taskToRoot = [t \in TaskIds |-> "None"]
  /\ taskToParent = [t \in TaskIds |-> "None"]
  /\ mergers = {}
  /\ runnerTaskIds = {}
  /\ localRunner = [t \in TaskIds |-> NewRunner("None", "None", 0)]
  /\ agentPc = [t \in TaskIds |-> "idle"]
  /\ currentRound = [t \in TaskIds |-> 0]
  /\ toolFuture = [t \in TaskIds |-> NoFuture]
  /\ toolCalls = 0
  /\ callOwner = [n \in ToolCallIds |-> "None"]
  /\ omAsyncGenerators = {}
  /\ omProcessed = {}
  /\ omTasks = [t \in TaskIds |-> "none"]
  /\ omQueue = <<>>
  /\ lmQueue = [t \in TaskIds |-> <<>>]
  /\ yielded = NoEvent
  /\ completion = [t \in TaskIds |-> NoCompletion]

(***************************************************************************)
(* Part 4: BaseStepAgent._run with ReActAgent._step, the context store and *)
(* the model input                                                         *)
(*                                                                         *)
(* ChatMessage objects are mutable and the context store (SimpleContext)   *)
(* keeps references to them, as do the responses handed on: the objects    *)
(* live in a heap and context holds object ids.  An entry of a list of     *)
(* model input is a reference to a heap object (ref > 0) or an object of   *)
(* its own (ref = 0, the value in val).                                    *)
(***************************************************************************)
\* final_answer_context_upper_limit / _lower_limit, in the unit of Size
UpperLimit == 3
LowerLimit == 2

NoMessage ==
  [role |-> "None", content |-> "None", tool_calls |-> "None",
   tool_name |-> "None", tool_call_id |-> "None"]

\* ChatMessage(role=..., content=...)
ChatMessage(role, content) ==
  [role |-> role, content |-> content, tool_calls |-> "None",
   tool_name |-> "None", tool_call_id |-> "None"]

\* the assistant message of a model response that calls tool `name`
ToolCallMessage(id, name) ==
  [role |-> "assistant", content |-> "text", tool_calls |-> id,
   tool_name |-> name, tool_call_id |-> "None"]

\* ChatMessage(role="tool", content=..., tool_call_id=...)
ToolResultMessage(id, content) ==
  [role |-> "tool", content |-> content, tool_calls |-> "None",
   tool_name |-> "None", tool_call_id |-> id]

\* _make_force_final_answer_message
make_force_final_answer_message ==
  ChatMessage("system", "force_final_answer_prompt")

\* the id of the tool call the model makes in round r
CallIds == <<"call_1", "call_2", "call_3", "call_4">>

\* the messages given to run(): one user message, short or long, or a
\* system message and a user message
InputMessages == {<<ChatMessage("user", "text")>>,
                  <<ChatMessage("user", "long_text")>>,
                  <<ChatMessage("system", "long_text"),
                    ChatMessage("user", "text")>>}
\* tool_call_id given to the runner: None for a root runner, the parent's
\* tool call for a child
RunnerToolCallIds == {"None", "parent_call"}
\* the delta messages of a streamed model response
StreamShapes ==
  {ChatMessage("assistant", "text"),
   ChatMessage("None", "text"),
   ToolCallMessage("call_1", "search"),
   ToolResultMessage("call_1", "text")}
\* what the model answers in a round: a final answer, a call of a search
\* tool or of another tool, or the model API raises
ModelOutcomes == {"answer", "search", "other", "raise"}
\* how toolset.call ends: a text result, batch search results, None, an
\* exception of the tool, the TimeoutError of the channel
ToolOutcomes == {"text", "batch", "None", "exception", "timeout"}

NoResponse ==
  [message |-> NoMessage, ref |-> 0, message_type |-> "none",
   status |-> "none", error_msg |-> "None"]

\* AgentResponse(message=..., status=..., message_type=...); ref: the heap
\* object the message is, 0 when it is no heap object
\* error_msg is given with status ERROR only
AgentResponse(message, ref, mtype, status) ==
  [message |-> message, ref |-> ref, message_type |-> mtype,
   status |-> status,
   error_msg |-> IF status = "error" THEN "err_text" ELSE "None"]

\* the message a response carries when its consumer reads it
MessageOf(r) == IF r.ref = 0 THEN r.message ELSE heap[r.ref]

\* context.get_all(), by value
ContextMessages == [i \in 1..Len(context) |-> heap[context[i]]]
ContextMessagesNext == [i \in 1..Len(context') |-> heap'[context'[i]]]

\* entries of model input
Ref(id) == [ref |-> id, val |-> NoMessage]
Own(m) == [ref |-> 0, val |-> m]
Val(e, h) == IF e.ref = 0 THEN e.val ELSE h[e.ref]

\* the share of a message in _estimate_token_length
Size(m) ==
  IF m.content \in {"batch_search_results", "long_text"} THEN 3 ELSE 1

RECURSIVE estimate_token_length(_, _)
estimate_token_length(messages, h) ==
  IF messages = <<>> THEN 0
  ELSE Size(Val(Head(messages), h)) + estimate_token_length(Tail(messages), h)

\* the sequence without the entries at the indices in drop
RECURSIVE Pop(_, _)
Pop(messages, drop) ==
  IF messages = <<>> THEN <<>>
  ELSE LET n == Len(messages)
           front == Pop(SubSeq(messages, 1, n - 1), drop)
       IN IF n \in drop THEN front ELSE Append(front, messages[n])

\* an _ensure_final_prompt that puts the prompt before the other messages
ensure_final_prompt_first(messages, h, inserted) ==
  IF ~forceEnabled \/ ~inserted THEN messages
  ELSE IF /\ messages # <<>>
          /\ Val(messages[1], h) = make_force_final_answer_message
  THEN messages
  ELSE <<Own(make_force_final_answer_message)>> \o messages

\* _ensure_final_prompt: appends to the list it is given
ensure_final_prompt(messages, h, inserted) ==
  IF ~forceEnabled \/ ~inserted THEN messages
  ELSE IF /\ messages # <<>>
          /\ Val(messages[Len(messages)], h).role = "system"
          /\ Val(messages[Len(messages)], h).content
               = make_force_final_answer_message.content
  THEN messages
  ELSE Append(messages, Own(make_force_final_answer_message))

\* a _copy_messages that hands back the objects it was given
copy_messages_shallow(messages, h) == messages

\* _copy_messages: a deep copy of every message
copy_messages(messages, h) ==
  [i \in 1..Len(messages) |-> Own(Val(messages[i], h))]

\* indices of the messages whose content holds uncompressed batch search
\* results
Uncompressed(messages, h) ==
  {i \in 1..Len(messages) :
     Val(messages[i], h).content = "batch_search_results"}

Min(S) == CHOOSE x \in S : \A y \in S : x <= y

\* _shrink_batch_search_results: the content of the earliest such message is
\* compressed in place, in the object the list entry stands for
shrink_batch_search_results(s) ==
  LET i == Min(Uncompressed(s.messages, s.heap))
      e == s.messages[i]
  IN IF e.ref = 0
     THEN [s EXCEPT !.messages[i].val.content =
                      "batch_search_results_compressed"]
     ELSE [s EXCEPT !.heap[e.ref].content =
                      "batch_search_results_compressed"]

\* indices of the messages with tool calls that _drop_oldest_tool_cycle
\* matches; onlySearch: the predicate _is_search_tool_call is given
Matched(messages, h, onlySearch) ==
  {i \in 1..Len(messages) :
     /\ Val(messages[i], h).tool_calls # "None"
     /\ onlySearch => Val(messages[i], h).tool_name = "search"}

\* a _drop_oldest_tool_cycle that drops the message with the tool calls and
\* leaves the tool results
drop_oldest_tool_cycle_call_only(messages, h, onlySearch) ==
  Pop(messages, {Min(Matched(messages, h, onlySearch))})

\* _drop_oldest_tool_cycle: the earliest matched message and the first tool
\* result after it that has the id of its tool call
drop_oldest_tool_cycle(messages, h, onlySearch) ==
  LET idx == Min(Matched(messages, h, onlySearch))
      results == {j \in (idx + 1)..Len(messages) :
                    /\ Val(messages[j], h).role = "tool"
                    /\ Val(messages[j], h).tool_call_id
                         = Val(messages[idx], h).tool_calls}
  IN Pop(messages, {idx} \cup (IF results = {} THEN {} ELSE {Min(results)}))

\* the loop of _trim_oldest_messages from index idx on
RECURSIVE TrimFrom(_, _, _)
TrimFrom(messages, h, idx) ==
  IF idx > Len(messages) \/ estimate_token_length(messages, h) <= UpperLimit
  THEN messages
  ELSE IF Val(messages[idx], h).role = "system"
  THEN TrimFrom(messages, h, idx + 1)
  ELSE TrimFrom(Pop(messages, {idx}), h, idx)

\* _trim_oldest_messages
trim_oldest_messages(messages, h) ==
  IF Len(messages) <= 1 THEN messages ELSE TrimFrom(messages, h, 1)

\* _ensure_context_within_upper_limit
RECURSIVE ensure_context_within_upper_limit(_, _)
ensure_context_within_upper_limit(messages, h) ==
  IF estimate_token_length(messages, h) <= UpperLimit THEN messages
  ELSE IF Matched(messages, h, FALSE) # {}
  THEN ensure_context_within_upper_limit(
         drop_oldest_tool_cycle(messages, h, FALSE), h)
  ELSE IF trim_oldest_messages(messages, h) # messages
  THEN ensure_context_within_upper_limit(trim_oldest_messages(messages, h), h)
  ELSE messages

\* the while loop of _handle_context_overflow
RECURSIVE OverflowLoop(_)
OverflowLoop(s) ==
  IF estimate_token_length(s.messages, s.heap) < LowerLimit THEN s
  ELSE IF Uncompressed(s.messages, s.heap) # {}
  THEN OverflowLoop(shrink_batch_search_results(s))
  ELSE IF Matched(s.messages, s.heap, TRUE) # {}
  THEN OverflowLoop([s EXCEPT !.messages =
                       drop_oldest_tool_cycle(s.messages, s.heap, TRUE)])
  ELSE s

\* _handle_context_overflow on [messages, heap, inserted]
handle_context_overflow(s) ==
  IF estimate_token_length(s.messages, s.heap) < UpperLimit THEN s
  ELSE LET after == OverflowLoop(s)
       IN IF estimate_token_length(after.messages, after.heap) < LowerLimit
          THEN after
          ELSE [after EXCEPT !.inserted = TRUE]

\* _prepare_messages_for_model: the model input, the heap and
\* _force_prompt_inserted it leaves
prepare_messages_for_model ==
  LET raw == [i \in 1..Len(context) |-> Ref(context[i])]
      first == ensure_final_prompt(raw, heap, forcePromptInserted)
      copied == copy_messages(first, heap)
      after == handle_context_overflow(
                 [messages |-> copied, heap |-> heap,
                  inserted |-> forcePromptInserted])
      prompted == ensure_final_prompt(after.messages, after.heap,
                                      after.inserted)
  IN IF ~forceEnabled
     THEN [messages |-> raw, heap |-> heap, inserted |-> forcePromptInserted]
     ELSE IF estimate_token_length(first, heap) < UpperLimit
     THEN [messages |-> first, heap |-> heap,
           inserted |-> forcePromptInserted]
     ELSE [after EXCEPT !.messages =
             ensure_context_within_upper_limit(prompted, after.heap)]

\* infer_messages of process_messages: a copy of the messages _step was
\* given, with the system prompt of the agent (the configured one, or the
\* default) inserted in front unless a message with that role and content
\* is among them
infer_messages ==
  IF \E i \in 1..Len(modelMessages) :
       /\ modelMessages[i].role = "system"
       /\ modelMessages[i].content = "system_prompt"
  THEN modelMessages
  ELSE <<ChatMessage("system", "system_prompt")>> \o modelMessages

\* history update of _run that treats a STREAM response like any other
UpdateHistoryAlways(m, mtype) ==
  IF m.role # "None"
  THEN [heap |-> Append(heap, m), context |-> Append(context, Len(heap) + 1),
        ref |-> Len(heap) + 1]
  ELSE [heap |-> heap, context |-> context, ref |-> 0]

\* the history update of _run for a response with message m: a message of a
\* response that is not STREAM and has a role is added to the context store
UpdateHistory(m, mtype) ==
  IF mtype # "stream" /\ m.role # "None"
  THEN [heap |-> Append(heap, m), context |-> Append(context, Len(heap) + 1),
        ref |-> Len(heap) + 1]
  ELSE [heap |-> heap, context |-> context, ref |-> 0]

\* LocalRunner._on_agent_finished for the response with heap object ref:
\* the runner of a child writes its tool_call_id into the message
on_agent_finished(h, ref, mtype, status) ==
  IF status # "finished" \/ mtype = "stream" \/ runnerToolCallId = "None"
  THEN h
  ELSE [h EXCEPT ![ref].tool_call_id = runnerToolCallId]

\* agent.run(messages) up to the loop of _run: the input is added to the
\* context store
AgentRun(input, enabled, tcid) ==
  /\ stepPc = "idle"
  /\ heap' = heap \o input
  /\ context' = context \o [i \in 1..Len(input) |-> Len(heap) + i]
  /\ stepRound' = 0
  /\ forceEnabled' = enabled
  /\ runnerToolCallId' = tcid
  /\ stepPc' = "loop"
  /\ UNCHANGED <<forcePromptInserted, modelMessages, pendingCall, toolOutcome,
                 response>>
  /\ UNCHANGED sent
  /\ UNCHANGED notAgent

\* a loop that goes on while current_round <= max_steps
StepLoopOneMore ==
  /\ stepPc = "loop"
  /\ IF stepRound > MaxSteps
     THEN /\ response' = AgentResponse(NoMessage, 0, "final", "stopped")
          /\ stepPc' = "done"
          /\ UNCHANGED <<heap, stepRound, forcePromptInserted, modelMessages>>
     ELSE LET p == prepare_messages_for_model IN
          /\ stepRound' = stepRound + 1
          /\ modelMessages' =
               [i \in 1..Len(p.messages) |-> Val(p.messages[i], p.heap)]
          /\ heap' = p.heap
          /\ forcePromptInserted' = p.inserted
          /\ stepPc' = "model"
          /\ UNCHANGED response
  /\ UNCHANGED <<context, forceEnabled, runnerToolCallId, pendingCall,
                 toolOutcome>>
  /\ UNCHANGED sent
  /\ UNCHANGED notAgent

\* the loop of _run after a round (or at its start): the STOPPED response
\* when max_steps is reached, else the next round up to the model call
StepLoop ==
  /\ stepPc = "loop"
  /\ IF stepRound >= MaxSteps
     THEN /\ response' = AgentResponse(NoMessage, 0, "final", "stopped")
          /\ stepPc' = "done"
          /\ UNCHANGED <<heap, stepRound, forcePromptInserted, modelMessages>>
     ELSE LET p == prepare_messages_for_model IN
          /\ stepRound' = stepRound + 1
          /\ modelMessages' =
               [i \in 1..Len(p.messages) |-> Val(p.messages[i], p.heap)]
          /\ heap' = p.heap
          /\ forcePromptInserted' = p.inserted
          /\ stepPc' = "model"
          /\ UNCHANGED response
  /\ UNCHANGED <<context, forceEnabled, runnerToolCallId, pendingCall,
                 toolOutcome>>
  /\ UNCHANGED sent
  /\ UNCHANGED notAgent

\* process_messages yields a delta of a streamed model response, _step
\* yields it, _run handles it and the runner hands it on
ModelStream(m) ==
  /\ stepPc = "model"
  /\ LET u == UpdateHistory(m, "stream") IN
       /\ heap' = on_agent_finished(u.heap, u.ref, "stream", "running")
       /\ context' = u.context
       /\ response' = AgentResponse(m, u.ref, "stream", "running")
  /\ UNCHANGED <<stepPc, stepRound, forceEnabled, forcePromptInserted,
                 runnerToolCallId, modelMessages, pendingCall, toolOutcome>>
  /\ UNCHANGED sent
  /\ UNCHANGED notAgent

\* the last response of process_messages for the round, through _step, _run
\* and the runner; or the model call raises and _run yields the ERROR response
ModelResponse(outcome) ==
  /\ stepPc = "model"
  /\ CASE outcome = "answer" ->
            LET u == UpdateHistory(ChatMessage("assistant", "text"), "final")
            IN /\ heap' = on_agent_finished(u.heap, u.ref, "final", "finished")
               /\ context' = u.context
               /\ response' = AgentResponse(NoMessage, u.ref, "final",
                                            "finished")
               /\ stepPc' = "done"
               /\ UNCHANGED pendingCall
       [] outcome \in {"search", "other"} ->
            LET id == CallIds[stepRound]
                u == UpdateHistory(ToolCallMessage(id, outcome), "accumulated")
            IN /\ heap' = on_agent_finished(u.heap, u.ref, "accumulated",
                                            "running")
               /\ context' = u.context
               /\ response' = AgentResponse(NoMessage, u.ref, "accumulated",
                                            "running")
               /\ pendingCall' = id
               /\ stepPc' = "tool"
       [] outcome = "raise" ->
            /\ response' = AgentResponse(NoMessage, 0, "final", "error")
            /\ stepPc' = "done"
            /\ UNCHANGED <<heap, context, pendingCall>>
  /\ UNCHANGED <<stepRound, forceEnabled, forcePromptInserted,
                 runnerToolCallId, modelMessages, toolOutcome>>
  /\ UNCHANGED sent
  /\ UNCHANGED notAgent

\* an _execute_single_tool that returns nothing when the tool raises
execute_single_tool_dropping(id, outcome) ==
  CASE outcome = "text" -> ToolResultMessage(id, "text")
    [] outcome = "batch" -> ToolResultMessage(id, "batch_search_results")
    [] OTHER -> NoMessage

\* _execute_single_tool: the tool message for the way toolset.call ended;
\* NoMessage for the result None
execute_single_tool(id, outcome) ==
  CASE outcome = "text" -> ToolResultMessage(id, "text")
    [] outcome = "batch" -> ToolResultMessage(id, "batch_search_results")
    [] outcome = "None" -> NoMessage
    [] outcome \in {"exception", "timeout"} ->
         ToolResultMessage(id, "Error calling tool")

\* run_tool_call in _step ends: the tool result response is yielded with
\* status RUNNING, added to the context store and handed on
ToolCallEnds(outcome) ==
  /\ stepPc = "tool"
  /\ toolOutcome' = outcome
  /\ LET m == execute_single_tool(pendingCall, outcome)
         u == UpdateHistory(m, "final")
     IN IF m = NoMessage
        THEN UNCHANGED <<heap, context, response>>
        ELSE /\ heap' = on_agent_finished(u.heap, u.ref, "final", "running")
             /\ context' = u.context
             /\ response' = AgentResponse(NoMessage, u.ref, "final", "running")
  /\ pendingCall' = "None"
  /\ stepPc' = "loop"
  /\ UNCHANGED <<stepRound, forceEnabled, forcePromptInserted,
                 runnerToolCallId, modelMessages>>
  /\ UNCHANGED sent
  /\ UNCHANGED notAgent

\* LocalRunner.send with a REQUEST event while the agent runs: the message is
\* appended to self._messages, the list run() gave to the agent, which
\* SimpleContext.add stored as simple_contexts[session_id] itself when the
\* session had no entry
RunnerSend ==
  /\ stepPc \in {"loop", "model", "tool"}
  /\ sent < MaxSends
  /\ sent' = sent + 1
  /\ heap' = Append(heap, ChatMessage("user", "text"))
  /\ context' = Append(context, Len(heap) + 1)
  /\ UNCHANGED <<stepPc, stepRound, forceEnabled, forcePromptInserted,
                 runnerToolCallId, modelMessages, pendingCall, toolOutcome,
                 response>>
  /\ UNCHANGED notAgent

AgentInit ==
  /\ heap = <<>>
  /\ context = <<>>
  /\ stepPc = "idle"
  /\ stepRound = 0
  /\ forceEnabled = FALSE
  /\ forcePromptInserted = FALSE
  /\ runnerToolCallId = "None"
  /\ modelMessages = <<>>
  /\ pendingCall = "None"
  /\ toolOutcome = "none"
  /\ response = NoResponse
  /\ sent = 0

(***************************************************************************)
(* Part 5: BaseStepAgent.__init__, the resolution of the context limits    *)
(*                                                                         *)
(* An optional value is None (the empty sequence) or <<v>>.                *)
(***************************************************************************)
None == <<>>

\* DEFAULT_FORCE_FINAL_ANSWER_UPPER_LIMIT
DEFAULT_FORCE_FINAL_ANSWER_UPPER_LIMIT == 100000
\* DEFAULT_FORCE_FINAL_ANSWER_LOWER_LIMIT: max(int(upper * 0.9), 1)
DEFAULT_FORCE_FINAL_ANSWER_LOWER_LIMIT ==
  IF (DEFAULT_FORCE_FINAL_ANSWER_UPPER_LIMIT * 9) \div 10 > 1
  THEN (DEFAULT_FORCE_FINAL_ANSWER_UPPER_LIMIT * 9) \div 10 ELSE 1

\* values of extra_config's final_answer_context_upper_limit,
\* final_answer_context_threshold and final_answer_context_lower_limit
ExtraUpperValues == {None, <<50>>, <<60>>}
ThresholdValues == {None, <<30>>, <<40>>}
ExtraLowerValues == {None, <<5>>}
\* values of the runtime config's context_upper_limit / context_lower_limit
RuntimeUpperValues == {None, <<20>>}
RuntimeLowerValues == {None, <<3>>}

Max(a, b) == IF a >= b THEN a ELSE b

\* get_context_limit_overrides: (upper, lower) of the runtime config
get_context_limit_overrides ==
  [upper |-> runtime_cfg.context_upper_limit,
   lower |-> runtime_cfg.context_lower_limit]

\* the limits __init__ computes from extra_config and the runtime config
ResolveLimits ==
  LET upper_from_extra == extra_cfg.final_answer_context_upper_limit # None
      lower_from_extra == extra_cfg.final_answer_context_lower_limit # None
      threshold_override == extra_cfg.final_answer_context_threshold
      runtime == get_context_limit_overrides
      upper_override ==
        IF ~upper_from_extra /\ runtime.upper # None
        THEN runtime.upper
        ELSE extra_cfg.final_answer_context_upper_limit
      lower_override ==
        IF ~lower_from_extra /\ ~upper_from_extra /\ runtime.lower # None
        THEN runtime.lower
        ELSE extra_cfg.final_answer_context_lower_limit
      chosen == IF upper_override # None THEN upper_override
                ELSE threshold_override
      upper_limit ==
        Max(IF chosen = None \/ chosen[1] <= 0
            THEN DEFAULT_FORCE_FINAL_ANSWER_UPPER_LIMIT ELSE chosen[1], 2)
      derived == (upper_limit * 9) \div 10
      lower0 == IF lower_override = None \/ lower_override[1] <= 0
                THEN (IF derived > 0 THEN derived
                      ELSE DEFAULT_FORCE_FINAL_ANSWER_LOWER_LIMIT)
                ELSE lower_override[1]
      lower1 == Max(lower0, 1)
  IN [upper_limit |-> upper_limit,
      lower_limit |-> IF lower1 >= upper_limit
                      THEN Max(upper_limit - 1, 1) ELSE lower1]

\* BaseStepAgent.__init__
BaseStepAgentInit ==
  /\ limits.upper_limit = 0
  /\ limits' = ResolveLimits
  /\ UNCHANGED <<extra_cfg, runtime_cfg>>
  /\ UNCHANGED notConfig

\* no agent constructed, nothing configured
ConfigInit ==
  /\ extra_cfg = [final_answer_context_threshold |-> None,
                  final_answer_context_upper_limit |-> None,
                  final_answer_context_lower_limit |-> None]
  /\ runtime_cfg = [context_upper_limit |-> None,
                    context_lower_limit |-> None]
  /\ limits = [upper_limit |-> 0, lower_limit |-> 0]

(***************************************************************************)
(* Part 6: one model call: StepFunModelProvider's retry wrappers and       *)
(* ModelAPI.chat_completion_stream with merge_delta_message                *)
(*                                                                         *)
(* A string is a sequence of pieces; None and "" are both the empty        *)
(* sequence (merge_delta_message treats them alike: `not result[key]`,     *)
(* `and value`, `elif value`).  A list that is None is the empty list, an  *)
(* integer that is None is 0.                                              *)
(***************************************************************************)
\* max_attempts of _call_with_retry / _stream_with_retry
max_attempts == 5

\* a content block of _delta_to_chat_message
Block(type, text) == [type |-> <<type>>, text |-> text]

\* a tool call of a delta
ChatToolCall(index, id, type, name, arguments) ==
  [index |-> index, id |-> id, type |-> type, name |-> name,
   arguments |-> arguments]

\* the events chat_completion_stream of the provider yields: the role, text
\* and reasoning, the first delta of a tool call and its continuation, a
\* second tool call, the usage
Deltas ==
  {[id |-> <<"id1">>, role |-> <<"assistant">>, content |-> <<>>,
    tool_calls |-> <<>>, tokens |-> 0],
   [id |-> <<"id2">>, role |-> <<>>,
    content |-> <<Block("think", <<"t">>)>>, tool_calls |-> <<>>,
    tokens |-> 0],
   [id |-> <<"id1">>, role |-> <<"model">>,
    content |-> <<Block("think", <<"u">>), Block("text", <<"a">>)>>,
    tool_calls |-> <<>>, tokens |-> 0],
   [id |-> <<>>, role |-> <<>>, content |-> <<Block("text", <<"b">>)>>,
    tool_calls |-> <<>>, tokens |-> 1],
   [id |-> <<"id1">>, role |-> <<>>, content |-> <<>>,
    tool_calls |-> <<ChatToolCall(0, <<"call_1">>, <<"function">>,
                                  <<"search">>, <<"{">>)>>,
    tokens |-> 0],
   [id |-> <<"id1">>, role |-> <<>>, content |-> <<>>,
    tool_calls |-> <<ChatToolCall(0, <<>>, <<"function">>, <<>>, <<"}">>),
                     ChatToolCall(1, <<"call_2">>, <<"function">>,
                                  <<"other">>, <<"x">>)>>,
    tokens |-> 2]}

\* merge_delta_message on two tool calls (the recursive call for one index):
\* index stays, id keeps its first non-empty value, type is overwritten,
\* the strings of function are concatenated
MergeToolCallConcatType(t1, t2) ==
  [index |-> t1.index,
   id |-> IF t1.id = <<>> THEN t2.id ELSE t1.id,
   type |-> t1.type \o t2.type,
   name |-> t1.name \o t2.name,
   arguments |-> t1.arguments \o t2.arguments]

MergeToolCall(t1, t2) ==
  [index |-> t1.index,
   id |-> IF t1.id = <<>> THEN t2.id ELSE t1.id,
   type |-> IF t2.type # <<>> THEN t2.type ELSE t1.type,
   name |-> t1.name \o t2.name,
   arguments |-> t1.arguments \o t2.arguments]

\* the toolcall dict of merge_delta_message after one more value v: merged
\* into the entry of its index, or a new entry at the end
PutToolCall(calls_, v) ==
  IF \E i \in 1..Len(calls_) : calls_[i].index = v.index
  THEN [i \in 1..Len(calls_) |->
          IF calls_[i].index = v.index THEN MergeToolCall(calls_[i], v)
          ELSE calls_[i]]
  ELSE Append(calls_, v)

RECURSIVE PutToolCalls(_, _)
PutToolCalls(calls_, values) ==
  IF values = <<>> THEN calls_
  ELSE PutToolCalls(PutToolCall(calls_, Head(values)), Tail(values))

\* the last loop of merge_delta_message on a list of content blocks:
\* consecutive blocks of one type become one block (the index of a content
\* block is None)
RECURSIVE CombineBlocks(_, _)
CombineBlocks(new_value, value) ==
  IF value = <<>> THEN new_value
  ELSE LET b == Head(value)
           n == Len(new_value)
       IN IF n > 0 /\ new_value[n].type = b.type
          THEN CombineBlocks(
                 [new_value EXCEPT ![n].text = new_value[n].text \o b.text],
                 Tail(value))
          ELSE CombineBlocks(Append(new_value, b), Tail(value))

\* merge_delta_message(d1, d2) for two message dicts.  The entries of
\* tool_calls have one index each after PutToolCalls, so the last loop
\* leaves that list as it is.
merge_delta_message(d1, d2) ==
  [id |-> IF d1.id = <<>> /\ d2.id # <<>> THEN d2.id ELSE d1.id,
   role |-> IF d1.role = <<>> /\ d2.role # <<>> THEN d2.role ELSE d1.role,
   content |-> CombineBlocks(<<>>, d1.content \o d2.content),
   tool_calls |-> PutToolCalls(d1.tool_calls, d2.tool_calls),
   tokens |-> d1.tokens + d2.tokens]

\* provider.chat_completion(...) / provider.chat_completion_stream(...) up
\* to the first wait for the network: attempt 1 of the retry wrapper
ModelCall(stream) ==
  /\ callPc = "idle"
  /\ streaming' = stream
  /\ attempt' = 1
  /\ invocations' = 1
  /\ callPc' = "running"
  /\ UNCHANGED <<sleeps, last_exc, raisedExc, deltas, failedDeltas,
                 accumulated_message>>
  /\ UNCHANGED notModel

\* func() returns: _call_with_retry returns the response
AttemptReturns ==
  /\ callPc = "running"
  /\ ~streaming
  /\ callPc' = "returned"
  /\ UNCHANGED <<streaming, attempt, invocations, sleeps, last_exc, raisedExc,
                 deltas, failedDeltas, accumulated_message>>
  /\ UNCHANGED notModel

\* the stream yields a chunk: the provider hands its event to ModelAPI, which
\* merges it into accumulated_message
StreamChunk(d) ==
  /\ callPc = "running"
  /\ streaming
  /\ Len(deltas) < MaxDeltas
  /\ deltas' = Append(deltas, d)
  /\ accumulated_message' =
       IF accumulated_message = None THEN <<d>>
       ELSE <<merge_delta_message(accumulated_message[1], d)>>
  /\ UNCHANGED <<callPc, streaming, attempt, invocations, sleeps, last_exc,
                 raisedExc, failedDeltas>>
  /\ UNCHANGED notModel

\* the stream ends: _stream_with_retry returns
StreamEnds ==
  /\ callPc = "running"
  /\ streaming
  /\ callPc' = "returned"
  /\ UNCHANGED <<streaming, attempt, invocations, sleeps, last_exc, raisedExc,
                 deltas, failedDeltas, accumulated_message>>
  /\ UNCHANGED notModel

\* an attempt that waits 2 ** attempt seconds before the next one
AttemptRaisesExponential ==
  /\ callPc = "running"
  /\ last_exc' = attempt
  /\ IF attempt >= max_attempts
     THEN /\ raisedExc' = last_exc'
          /\ callPc' = "raised"
          /\ UNCHANGED sleeps
     ELSE /\ sleeps' = Append(sleeps, 2 ^ attempt)
          /\ callPc' = "sleeping"
          /\ UNCHANGED raisedExc
  /\ failedDeltas' = Len(deltas)
  /\ UNCHANGED <<streaming, attempt, invocations, deltas,
                 accumulated_message>>
  /\ UNCHANGED notModel

\* func() or the stream raises an Exception: the last attempt re-raises it,
\* an earlier one goes to sleep for 2 * attempt seconds
AttemptRaises ==
  /\ callPc = "running"
  /\ last_exc' = attempt
  /\ IF attempt >= max_attempts
     THEN /\ raisedExc' = last_exc'
          /\ callPc' = "raised"
          /\ UNCHANGED sleeps
     ELSE /\ sleeps' = Append(sleeps, 2 * attempt)
          /\ callPc' = "sleeping"
          /\ UNCHANGED raisedExc
  /\ failedDeltas' = Len(deltas)
  /\ UNCHANGED <<streaming, attempt, invocations, deltas,
                 accumulated_message>>
  /\ UNCHANGED notModel

\* asyncio.sleep returns: the next attempt calls func() / stream_factory()
SleepEnds ==
  /\ callPc = "sleeping"
  /\ attempt' = attempt + 1
  /\ invocations' = invocations + 1
  /\ callPc' = "running"
  /\ UNCHANGED <<streaming, sleeps, last_exc, raisedExc, deltas,
                 failedDeltas, accumulated_message>>
  /\ UNCHANGED notModel

\* no model call made yet
ModelInit ==
  /\ callPc = "idle"
  /\ streaming = FALSE
  /\ attempt = 0
  /\ invocations = 0
  /\ sleeps = <<>>
  /\ last_exc = 0
  /\ raisedExc = 0
  /\ deltas = <<>>
  /\ failedDeltas = 0
  /\ accumulated_message = None

(***************************************************************************)
(* Part 7: websocket_handler: the receive loop and the outgoing stream     *)
(***************************************************************************)
\* what the client sends after the initial REQUEST: an event for a task
\* with a runner, data that fails AgentEvent.model_validate, an event whose
\* task_id has no runner
EventKinds == {"valid", "invalid", "unknown_task"}

\* one pass of the loop of send_to_agent_loop: channel.receive(), validation,
\* orch.send_event.  A ValidationError is logged and the loop goes on;
\* send_event raises ValueError when self._runners has no runner for the
\* task id, which the loop does not catch: the task ends with it.
send_to_agent_loop(kind) ==
  /\ wsPc = "waiting"
  /\ recvTask = "running"
  /\ Len(received) < MaxEvents
  /\ received' = Append(received, kind)
  /\ recvTask' = IF kind = "unknown_task" THEN "raised" ELSE "running"
  /\ UNCHANGED <<wsPc, agentTask, sentToClient>>
  /\ UNCHANGED notServer

\* one pass of the loop of send_to_client_loop: an event of orch.run() is
\* sent to the client
send_to_client_loop ==
  /\ agentTask = "running"
  /\ sentToClient < MaxOutgoing
  /\ sentToClient' = sentToClient + 1
  /\ UNCHANGED <<wsPc, recvTask, agentTask, received>>
  /\ UNCHANGED notServer

\* orch.run() ends: send_to_client_loop returns
ClientLoopEnds ==
  /\ agentTask = "running"
  /\ agentTask' = "done"
  /\ UNCHANGED <<wsPc, recvTask, received, sentToClient>>
  /\ UNCHANGED notServer

\* asyncio.wait(FIRST_COMPLETED) returns: the task still pending is
\* cancelled and the channel is closed
WaitReturns ==
  /\ wsPc = "waiting"
  /\ recvTask # "running" \/ agentTask # "running"
  /\ recvTask' = IF recvTask = "running" THEN "cancelled" ELSE recvTask
  /\ agentTask' = IF agentTask = "running" THEN "cancelled" ELSE agentTask
  /\ wsPc' = "closed"
  /\ UNCHANGED <<received, sentToClient>>
  /\ UNCHANGED notServer

\* websocket_handler has accepted the initial REQUEST and created both tasks
ServerInit ==
  /\ wsPc = "waiting"
  /\ recvTask = "running"
  /\ agentTask = "running"
  /\ received = <<>>
  /\ sentToClient = 0

(***************************************************************************)
(* Part 8: StepFunModelProvider._process_stream_content_for_think on the   *)
(* content of one streamed response                                        *)
(*                                                                         *)
(* A string is the list of its characters; None and "" are both the empty  *)
(* list (the callers test `if reasoning`, `and content`).                  *)
(***************************************************************************)
\* deltas that carry the content of one response
MaxChunks == 3

\* _THINK_OPEN_TAG = "<think>", _THINK_CLOSE_TAG = "</think>"
THINK_OPEN_TAG == <<"<", "t", "h", "i", "n", "k", ">">>
THINK_CLOSE_TAG == <<"<", "/", "t", "h", "i", "n", "k", ">">>

\* the contents of a response: text around a think region, a region that is
\* not closed, text with a "<" in it or at its end, a region with a "<" and
\* a "</" in it, a tag that breaks off
Contents ==
  {<<"a">> \o THINK_OPEN_TAG \o <<"b">> \o THINK_CLOSE_TAG \o <<"c">>,
   THINK_OPEN_TAG \o <<"b", "c">>,
   <<"a", "<", "b">>,
   <<"a", "<">>,
   THINK_OPEN_TAG \o <<"<", "b", "<", "/", "c">> \o THINK_CLOSE_TAG,
   <<"a", "<", "t", "h", "x">>,
   <<"a", "<", "t", "h">>}

\* s.startswith(prefix)
StartsWith(s, prefix) ==
  /\ Len(prefix) <= Len(s)
  /\ SubSeq(s, 1, Len(prefix)) = prefix

RECURSIVE ScanBuffer(_, _, _, _, _)
\* the while loop of _process_stream_content_for_think from index i on
\* (counted from 1), with the state and the parts it has so far
ScanBuffer(buffer, i, in_think, reasoning_parts, text_parts) ==
  IF i > Len(buffer)
  THEN [in_think |-> in_think, tag_buffer |-> <<>>,
        reasoning |-> reasoning_parts, text |-> text_parts]
  ELSE LET remaining == SubSeq(buffer, i, Len(buffer))
           tag == IF in_think THEN THINK_CLOSE_TAG ELSE THINK_OPEN_TAG
       IN IF buffer[i] = "<" /\ StartsWith(remaining, tag)
          THEN \* the complete tag
               ScanBuffer(buffer, i + Len(tag), ~in_think, reasoning_parts,
                          text_parts)
          ELSE IF buffer[i] = "<" /\ StartsWith(tag, remaining)
          THEN \* possibly a tag that is not complete: kept for the next
               \* chunk, break
               [in_think |-> in_think, tag_buffer |-> remaining,
                reasoning |-> reasoning_parts, text |-> text_parts]
          ELSE IF in_think
          THEN ScanBuffer(buffer, i + 1, in_think,
                          Append(reasoning_parts, buffer[i]), text_parts)
          ELSE ScanBuffer(buffer, i + 1, in_think, reasoning_parts,
                          Append(text_parts, buffer[i]))

\* _process_stream_content_for_think(content) in the state given: the state
\* it leaves and the (reasoning, text_content) it returns
process_stream_content_for_think(in_think, tag_buffer, content) ==
  IF content = <<>>
  THEN [in_think |-> in_think, tag_buffer |-> tag_buffer,
        reasoning |-> <<>>, text |-> <<>>]
  ELSE ScanBuffer(tag_buffer \o content, 1, in_think, <<>>, <<>>)

\* a delta with the next n characters of the content arrives:
\* _delta_to_chat_message hands its content to
\* _process_stream_content_for_think and puts what it returns into the
\* blocks of the event.  The last delta the bound allows carries the rest.
DeltaContent(n) ==
  /\ chunks < MaxChunks
  /\ delivered_len + n <= Len(stream_content)
  /\ chunks = MaxChunks - 1 => delivered_len + n = Len(stream_content)
  /\ LET r == process_stream_content_for_think(
                stream_in_think_tag, stream_tag_buffer,
                SubSeq(stream_content, delivered_len + 1, delivered_len + n))
     IN /\ stream_in_think_tag' = r.in_think
        /\ stream_tag_buffer' = r.tag_buffer
        /\ reasoning_out' = reasoning_out \o r.reasoning
        /\ text_out' = text_out \o r.text
  /\ delivered_len' = delivered_len + n
  /\ chunks' = chunks + 1
  /\ UNCHANGED stream_content
  /\ UNCHANGED notThink

\* stream_factory has reset the streaming state, nothing has arrived
ThinkInit ==
  /\ stream_content = <<>>
  /\ delivered_len = 0
  /\ chunks = 0
  /\ stream_in_think_tag = FALSE
  /\ stream_tag_buffer = <<>>
  /\ reasoning_out = <<>>
  /\ text_out = <<>>

(***************************************************************************)
(* Part 9: cortex/agents/checkpoint_agent, CheckpointAgent._run with       *)
(* CheckpointReActAgent._step: the runs of one thread, each loading the    *)
(* CheckpointState at its start and saving it at its end                   *)
(*                                                                         *)
(* _run is an async generator: it is suspended at each yield, and the code *)
(* after a yield runs only if its consumer asks for the next response.  A  *)
(* consumer that is cancelled, or closes the generator, ends the run at    *)
(* the yield; the `async with CheckPointer` block saves the state on every *)
(* way out of the run.  model_dump / model_validate copy the state field   *)
(* by field, and the model's states are values, so the copy is the value.  *)
(***************************************************************************)
\* state.max_steps, from the agent's configuration
max_steps == 2
\* calls of _run made on the thread
MaxRuns == 3
\* tool calls in one assistant message
MaxToolCalls == 2
\* tool call ids the model makes, all together
MaxToolCallIds == 3

\* a ChatMessage of the thread: its role, the ids of its tool calls and its
\* tool_call_id (0: None)
ThreadMessage(role, tool_calls, tool_call_id) ==
  [role |-> role, tool_calls |-> tool_calls, tool_call_id |-> tool_call_id]

\* the messages argument of _run: nothing (a resume) or a user message
RunInputs == {<<>>, <<ThreadMessage("user", <<>>, 0)>>}

\* _init_state() (max_steps is the definition above)
init_state ==
  [messages |-> <<>>, pending_tool_calls |-> <<>>, tool_call_results |-> <<>>,
   current_step |-> 0, finished |-> FALSE, error |-> FALSE]

\* no response: _run is not suspended in _execute_step
NoStepResponse == [status |-> "none", message |-> <<>>]

\* results.get(tool_call_id) of a PendingToolCall: the dict is the list of
\* its values in insertion order, each under its tool_call_id
HasResult(results, id) ==
  \E k \in 1..Len(results) : results[k].tool_call_id = id

RECURSIVE MatchToolCalls(_, _, _, _)
\* the inner loop of _update_client_tool_results from tool call i on:
\* get_client_tool_call_result raises for a stored error and returns None
\* when nothing is stored
MatchToolCalls(tool_calls, i, results, all_matched) ==
  IF i > Len(tool_calls)
  THEN [results |-> results, all_matched |-> all_matched, raised |-> FALSE]
  ELSE LET id == tool_calls[i]
       IN IF HasResult(results, id)
          THEN MatchToolCalls(tool_calls, i + 1, results, all_matched)
          ELSE IF client_tool_results[id] = "error"
          THEN [results |-> results, all_matched |-> all_matched,
                raised |-> TRUE]
          ELSE IF client_tool_results[id] = "none"
          THEN MatchToolCalls(tool_calls, i + 1, results, FALSE)
          ELSE MatchToolCalls(tool_calls, i + 1,
                              Append(results, ThreadMessage("tool", <<>>, id)),
                              all_matched)

RECURSIVE update_client_tool_results(_, _, _)
\* _update_client_tool_results(state) from pending item k on: the state it
\* leaves, whether it raised and what it returned.  The results dict of an
\* item is updated in place, state.pending_tool_calls is assigned at the end
update_client_tool_results(st, k, new_pending_tool_calls) ==
  IF k > Len(st.pending_tool_calls)
  THEN [state |-> [st EXCEPT !.pending_tool_calls = new_pending_tool_calls],
        raised |-> FALSE,
        has_pending |-> Len(new_pending_tool_calls) > 0]
  ELSE LET pending_item == st.pending_tool_calls[k]
           m == MatchToolCalls(pending_item.request.tool_calls, 1,
                               pending_item.results, TRUE)
           updated == [pending_item EXCEPT !.results = m.results]
           st1 == [st EXCEPT !.pending_tool_calls[k] = updated]
       IN IF m.raised
          THEN [state |-> st1, raised |-> TRUE, has_pending |-> FALSE]
          ELSE IF m.all_matched
          THEN update_client_tool_results(
                 [st1 EXCEPT !.tool_call_results = @ \o m.results],
                 k + 1, new_pending_tool_calls)
          ELSE update_client_tool_results(
                 st1, k + 1, Append(new_pending_tool_calls, updated))

\* _should_continue(state)
should_continue(st) ==
  IF Len(st.pending_tool_calls) > 0 THEN FALSE
  ELSE IF Len(st.tool_call_results) > 0 THEN TRUE
  ELSE IF st.finished THEN FALSE
  ELSE IF st.error THEN FALSE
  ELSE IF st.current_step >= max_steps THEN FALSE
  ELSE TRUE

\* the run ends, by return, break, an exception or the generator's close:
\* CheckPointer.__exit__ saves the state
EndRun(st) ==
  /\ storage' = <<st>>
  /\ state' = init_state
  /\ cpPc' = "idle"
  /\ resultIdx' = 0
  /\ stepResponse' = NoStepResponse

\* _run(messages) is called: CheckPointer.__enter__ loads the state of the
\* thread, or takes the initial one, and the input is appended
RunStart(messages) ==
  /\ cpPc = "idle"
  /\ runs < MaxRuns
  /\ LET loaded == IF storage = <<>> THEN init_state ELSE storage[1]
     IN state' = [loaded EXCEPT !.messages = @ \o messages]
  /\ cpPc' = "loop"
  /\ runs' = runs + 1
  /\ UNCHANGED <<storage, resultIdx, stepResponse, client_tool_results,
                 toolCallIds>>
  /\ UNCHANGED notCheckpoint

\* the top of the loop of _run: _update_client_tool_results; the run ends
\* when it raises or tool calls are still pending, otherwise the first
\* result is yielded through _process_tool_call_results, if there is one
UpdateClientToolResults ==
  /\ cpPc = "loop"
  /\ LET u == update_client_tool_results(state, 1, <<>>)
     IN IF u.raised \/ u.has_pending
        THEN EndRun(u.state)
        ELSE /\ state' = u.state
             /\ IF Len(u.state.tool_call_results) > 0
                THEN cpPc' = "process" /\ resultIdx' = 1
                ELSE cpPc' = "check" /\ resultIdx' = 0
             /\ UNCHANGED <<storage, stepResponse>>
  /\ UNCHANGED <<client_tool_results, toolCallIds, runs>>
  /\ UNCHANGED notCheckpoint

\* the consumer asks for the next response while a tool result is yielded:
\* _process_tool_call_results appends the result to the messages and yields
\* the next one, or clears the list after the last
ProcessToolCallResult ==
  /\ cpPc = "process"
  /\ LET appended == [state EXCEPT
                        !.messages = Append(@, state.tool_call_results[resultIdx])]
     IN IF resultIdx < Len(state.tool_call_results)
        THEN /\ state' = appended
             /\ resultIdx' = resultIdx + 1
             /\ cpPc' = "process"
        ELSE /\ state' = [appended EXCEPT !.tool_call_results = <<>>]
             /\ resultIdx' = 0
             /\ cpPc' = "check"
  /\ UNCHANGED <<storage, stepResponse, client_tool_results, toolCallIds,
                 runs>>
  /\ UNCHANGED notCheckpoint

\* _should_continue, then _execute_step up to its yield: _step calls the
\* model with state.messages and yields an assistant message with n tool
\* calls (status RUNNING), a final assistant message (FINISHED), or, when
\* the call raised, no message (ERROR)
ExecuteStep(n, status) ==
  /\ cpPc = "check"
  /\ IF ~should_continue(state)
     THEN /\ n = 0 /\ status = "finished"
          /\ EndRun(state)
          /\ UNCHANGED toolCallIds
     ELSE /\ toolCallIds + n <= MaxToolCallIds
          /\ status = "running" <=> n > 0
          /\ stepResponse' =
               [status |-> status,
                message |->
                  IF status = "error" THEN <<>>
                  ELSE <<ThreadMessage("assistant",
                                       [j \in 1..n |-> toolCallIds + j], 0)>>]
          /\ toolCallIds' = toolCallIds + n
          /\ cpPc' = "step"
          /\ UNCHANGED <<storage, state, resultIdx>>
  /\ UNCHANGED <<client_tool_results, runs>>
  /\ UNCHANGED notCheckpoint

\* the tool result messages run_tool_call returns when the tools of the
\* calls in answered returned a result and the others returned None
RECURSIVE ImmediateResults(_, _, _)
ImmediateResults(tool_calls, i, answered) ==
  IF i > Len(tool_calls) THEN <<>>
  ELSE (IF tool_calls[i] \in answered
        THEN <<ThreadMessage("tool", <<>>, tool_calls[i])>> ELSE <<>>)
       \o ImmediateResults(tool_calls, i + 1, answered)

\* the consumer asks for the next response while the response of _step is
\* yielded: _execute_step runs the tool calls of the message and makes
\* them a pending item, appends the message, counts the step and sets
\* finished and error from the status
StepResumes(answered) ==
  /\ cpPc = "step"
  /\ LET message == stepResponse.message
         tool_calls == IF message = <<>> THEN <<>> ELSE message[1].tool_calls
         with_pending ==
           IF Len(tool_calls) > 0
           THEN [state EXCEPT
                   !.pending_tool_calls =
                      Append(@, [request |-> message[1],
                                 results |-> ImmediateResults(tool_calls, 1,
                                                              answered)])]
           ELSE state
         with_message ==
           IF message = <<>> THEN with_pending
           ELSE [with_pending EXCEPT !.messages = Append(@, message[1])]
     IN /\ answered \subseteq {tool_calls[j] : j \in 1..Len(tool_calls)}
        /\ state' = [with_message EXCEPT
                       !.current_step = @ + 1,
                       !.finished = @ \/ stepResponse.status # "running",
                       !.error = @ \/ stepResponse.status = "error"]
  /\ cpPc' = "loop"
  /\ stepResponse' = NoStepResponse
  /\ UNCHANGED <<storage, resultIdx, client_tool_results, toolCallIds, runs>>
  /\ UNCHANGED notCheckpoint

\* the consumer of the run is cancelled or closes the generator while a
\* response is yielded: the code after the yield does not run, the state is
\* saved as it is
RunClosed ==
  /\ cpPc \in {"process", "step"}
  /\ EndRun(state)
  /\ UNCHANGED <<client_tool_results, toolCallIds, runs>>
  /\ UNCHANGED notCheckpoint

\* set_client_tool_call_result(id, result, error), through set_response: the
\* client's answer to a tool call is stored, a result or an error
SetClientToolCallResult(id, outcome) ==
  /\ id <= toolCallIds
  /\ client_tool_results[id] = "none"
  /\ client_tool_results' = [client_tool_results EXCEPT ![id] = outcome]
  /\ UNCHANGED <<storage, state, cpPc, resultIdx, stepResponse, toolCallIds,
                 runs>>
  /\ UNCHANGED notCheckpoint

\* a new thread: nothing stored for it, no run, no tool call answered
CheckpointInit ==
  /\ storage = <<>>
  /\ state = init_state
  /\ cpPc = "idle"
  /\ resultIdx = 0
  /\ stepResponse = NoStepResponse
  /\ client_tool_results = [id \in 1..MaxToolCallIds |-> "none"]
  /\ toolCallIds = 0
  /\ runs = 0

(***************************************************************************)
(* Part 10: agentkit/trace/context.py, SpanContext.span: the scopes that   *)
(* the tasks of one task tree open and close on one SpanContext            *)
(*                                                                         *)
(* send_to_client_loop makes the SpanContext and opens the first span on   *)
(* it; the merger of Orchestrator.run creates the runners' tasks inside    *)
(* this scope.  asyncio.create_task copies the creator's context, in which *)
(* _current_context holds the SpanContext object: get_current_context()    *)
(* in a runner's task returns this very object, with the one _span_stack.  *)
(* The body of a scope awaits (the model call, the tool call), so the      *)
(* scopes of different tasks overlap.                                      *)
(***************************************************************************)
\* spans made on the SpanContext, all together
MaxSpans == 4
\* scopes one task has open at a time (the step's span around the span of
\* the model call or of the tool call)
MaxDepth == 2

\* send_to_client_loop and the tasks of the runners
MainTask == "main"
RunnerTasks == {"r1", "r2"}
SpanTasks == {MainTask} \cup RunnerTasks

\* the span the innermost open scope of task t made
InnermostSpan(t) == scopes[t][Len(scopes[t])].span

\* the spans whose scope is open in task t
OpenIn(t) == {scopes[t][k].span : k \in 1..Len(scopes[t])}

\* the merger creates the task of a runner while send_to_client_loop is in
\* its scope: the task gets a copy of the context of its creator
CreateTask(t) ==
  /\ t \in RunnerTasks \ treeTasks
  /\ scopes[MainTask] # <<>>
  /\ treeTasks' = treeTasks \cup {t}
  /\ current_context' = [current_context EXCEPT ![t] = current_context[MainTask]]
  /\ UNCHANGED <<span_stack, spanCount, spanParent, scopes>>
  /\ UNCHANGED notSpan

\* task t enters `with ctx.span(...)`, up to the yield: the parent is the
\* top of the stack (parent_id None, here 0, without one), the new span is
\* pushed and _current_context is set in the context of the task.
\* send_to_client_loop has ctx from the constructor, the others from
\* get_current_context()
EnterSpan(t) ==
  /\ t \in treeTasks
  /\ t \in RunnerTasks => current_context[t] = "ctx"
  /\ Len(scopes[t]) < MaxDepth
  /\ t = MainTask => scopes[t] = <<>> /\ spanCount = 0
  /\ spanCount < MaxSpans
  /\ LET parent_span == IF span_stack = <<>> THEN 0
                        ELSE span_stack[Len(span_stack)]
         span == spanCount + 1
     IN /\ spanParent' = [spanParent EXCEPT ![span] = parent_span]
        /\ span_stack' = Append(span_stack, span)
        /\ scopes' = [scopes EXCEPT
                        ![t] = Append(@, [span |-> span,
                                          token |-> current_context[t]])]
        /\ spanCount' = span
  /\ current_context' = [current_context EXCEPT ![t] = "ctx"]
  /\ UNCHANGED treeTasks
  /\ UNCHANGED notSpan

\* the innermost scope of task t ends, by the end of its body or by an
\* exception: the finally block pops the stack and resets _current_context
\* to what the token holds
ExitSpan(t) ==
  /\ scopes[t] # <<>>
  /\ span_stack' = SubSeq(span_stack, 1, Len(span_stack) - 1)
  /\ current_context' =
       [current_context EXCEPT ![t] = scopes[t][Len(scopes[t])].token]
  /\ scopes' = [scopes EXCEPT ![t] = SubSeq(@, 1, Len(@) - 1)]
  /\ UNCHANGED <<spanCount, spanParent, treeTasks>>
  /\ UNCHANGED notSpan

\* SpanContext(tracer, app_name) in send_to_client_loop: no span yet, the
\* tasks of the runners do not exist
SpanInit ==
  /\ span_stack = <<>>
  /\ spanCount = 0
  /\ spanParent = [s \in 1..MaxSpans |-> 0]
  /\ scopes = [t \in SpanTasks |-> <<>>]
  /\ current_context = [t \in SpanTasks |-> "None"]
  /\ treeTasks = {MainTask}

LaterInit ==
  /\ ThinkInit
  /\ CheckpointInit
  /\ SpanInit

(***************************************************************************)
(* Specifications                                                          *)
(***************************************************************************)
MergerInit ==
  /\ generators = {}
  /\ asyncGenerators = {}
  /\ runningTasks = <<>>
  /\ queue = <<>>
  /\ activeCount = 0
  /\ processed = {}
  /\ mpc = "init"
  /\ adds = 0
  /\ lastAdd = "none"
  /\ delivered = [g \in AllIds |-> <<>>]
  /\ callbackLog = [g \in AllIds |-> 0]
  /\ lateAdded = {}

ChannelInit ==
  /\ pendingRequests = [r \in AllRequestIds |-> 0]
  /\ requestCounter = 0
  /\ futures = <<>>
  /\ calls = <<>>
  /\ firstResponse = <<>>
  /\ ignoredResponse = 0

\* a merger, constructed with or without an on_generator_complete callback
Init ==
  /\ MergerInit
  /\ hasCallback \in BOOLEAN
  /\ ChannelInit
  /\ OrchInit
  /\ AgentInit
  /\ ConfigInit
  /\ ModelInit
  /\ ServerInit
  /\ LaterInit

\* a step of some producer task
Producer ==
  \E i \in TaskIdx :
    \/ WrapperStart(i)
    \/ WrapperPut(i)
    \/ WrapperComplete(i)
    \/ WrapperRaise(i)
    \/ CallbackReturn(i)

\* a step of the consumer of merge()
Consumer ==
  \/ MergeCall
  \/ Recheck
  \/ Get
  \/ GetTimeout
  \/ Resume
  \/ Gather

Next ==
  \/ add_generator
  \/ add_async_generator
  \/ \E i \in TaskIdx : WrapperStart(i)
  \/ \E i \in TaskIdx : WrapperPut(i)
  \/ \E i \in TaskIdx : WrapperComplete(i)
  \/ \E i \in TaskIdx : WrapperRaise(i)
  \/ \E i \in TaskIdx : CallbackReturn(i)
  \/ Consumer

Spec == Init /\ [][Next]_vars

\* The event loop runs every task that is ready, and the consumer keeps
\* asking for the next item; registrations are up to the callers.
FairSpec == Spec /\ WF_vars(Producer) /\ WF_vars(Consumer)

\* a channel, constructed
ChannelSpecInit ==
  /\ MergerInit
  /\ hasCallback = FALSE
  /\ ChannelInit
  /\ OrchInit
  /\ AgentInit
  /\ ConfigInit
  /\ ModelInit
  /\ ServerInit
  /\ LaterInit

ChannelNext ==
  \/ \E arg \in RequestIdArgs, timeout \in BOOLEAN, handler \in BOOLEAN :
       SendRequest(arg, timeout, handler)
  \/ \E rid \in AllRequestIds, r \in Responses :
       set_response(rid, r[1], r[2])
  \/ \E c \in CallIdx : OnSendReturn(c)
  \/ \E c \in CallIdx : OnSendRaise(c)
  \/ \E c \in CallIdx : CancelCaller(c)
  \/ \E c \in CallIdx : TimeoutExpires(c)
  \/ \E c \in CallIdx : CallCancelled(c)
  \/ \E c \in CallIdx : WaitReturn(c)

ChannelSpec == ChannelSpecInit /\ [][ChannelNext]_vars

\* an orchestrator, constructed
OrchSpecInit ==
  /\ MergerInit
  /\ hasCallback = FALSE
  /\ ChannelInit
  /\ OrchInit
  /\ AgentInit
  /\ ConfigInit
  /\ ModelInit
  /\ ServerInit
  /\ LaterInit

\* a step of the consumer side of run(): the loop of run() itself
RunLoop ==
  \/ MergeGet
  \/ ResumeRun

\* a step of one of the tasks on the event loop
TaskStep ==
  \E t \in TaskIds :
    \/ \E o \in Outcomes : AgentStep(t, o)
    \/ ToolReturn(t)
    \/ ToolTimeout(t)
    \/ RunnerGet(t)

OrchNext ==
  \/ \E a \in RequestArgs, m \in Modes : run(a[1], a[2], m)
  \/ MergeGet
  \/ ResumeRun
  \/ CloseConsumer
  \/ \E t \in TaskIds, o \in Outcomes : AgentStep(t, o)
  \/ \E t \in TaskIds : ToolReturn(t)
  \/ \E t \in TaskIds : ToolTimeout(t)
  \/ \E t \in TaskIds : RunnerGet(t)
  \/ \E n \in ToolCallIds, error \in BOOLEAN : send_event(n, error)

OrchSpec == OrchSpecInit /\ [][OrchNext]_vars

\* The event loop runs every task that is ready, every send_request has a
\* timeout (AgentTool: timeout or 30.0), and the consumer of run() keeps
\* asking for the next event until it goes away.
OrchFairSpec == OrchSpec /\ WF_vars(RunLoop) /\ WF_vars(TaskStep)

\* an agent with an empty context store
AgentSpecInit ==
  /\ MergerInit
  /\ hasCallback = FALSE
  /\ ChannelInit
  /\ OrchInit
  /\ AgentInit
  /\ ConfigInit
  /\ ModelInit
  /\ ServerInit
  /\ LaterInit

AgentNext ==
  \/ \E input \in InputMessages, enabled \in BOOLEAN,
        tcid \in RunnerToolCallIds : AgentRun(input, enabled, tcid)
  \/ StepLoop
  \/ \E m \in StreamShapes : ModelStream(m)
  \/ \E outcome \in ModelOutcomes : ModelResponse(outcome)
  \/ \E outcome \in ToolOutcomes : ToolCallEnds(outcome)
  \/ RunnerSend

AgentSpec == AgentSpecInit /\ [][AgentNext]_vars

\* an agent about to be constructed, with some extra_config and some runtime
\* config file
ConfigSpecInit ==
  /\ MergerInit
  /\ hasCallback = FALSE
  /\ ChannelInit
  /\ OrchInit
  /\ AgentInit
  /\ extra_cfg \in [final_answer_context_threshold : ThresholdValues,
                     final_answer_context_upper_limit : ExtraUpperValues,
                     final_answer_context_lower_limit : ExtraLowerValues]
  /\ runtime_cfg \in [context_upper_limit : RuntimeUpperValues,
                       context_lower_limit : RuntimeLowerValues]
  /\ limits = [upper_limit |-> 0, lower_limit |-> 0]
  /\ ModelInit
  /\ ServerInit
  /\ LaterInit

ConfigNext == BaseStepAgentInit

ConfigSpec == ConfigSpecInit /\ [][ConfigNext]_vars

\* a provider and a ModelAPI, constructed
ModelSpecInit ==
  /\ MergerInit
  /\ hasCallback = FALSE
  /\ ChannelInit
  /\ OrchInit
  /\ AgentInit
  /\ ConfigInit
  /\ ModelInit
  /\ ServerInit
  /\ LaterInit

ModelNext ==
  \/ \E stream \in BOOLEAN : ModelCall(stream)
  \/ AttemptReturns
  \/ \E d \in Deltas : StreamChunk(d)
  \/ StreamEnds
  \/ AttemptRaises
  \/ SleepEnds

ModelSpec == ModelSpecInit /\ [][ModelNext]_vars

\* a websocket connection after its initial REQUEST
ServerSpecInit ==
  /\ MergerInit
  /\ hasCallback = FALSE
  /\ ChannelInit
  /\ OrchInit
  /\ AgentInit
  /\ ConfigInit
  /\ ModelInit
  /\ ServerInit
  /\ LaterInit

ServerNext ==
  \/ \E kind \in EventKinds : send_to_agent_loop(kind)
  \/ send_to_client_loop
  \/ ClientLoopEnds
  \/ WaitReturns

ServerSpec == ServerSpecInit /\ [][ServerNext]_vars

\* a streaming call whose response has one of the contents, before its first
\* delta
ThinkSpecInit ==
  /\ MergerInit
  /\ hasCallback = FALSE
  /\ ChannelInit
  /\ OrchInit
  /\ AgentInit
  /\ ConfigInit
  /\ ModelInit
  /\ ServerInit
  /\ stream_content \in Contents
  /\ delivered_len = 0
  /\ chunks = 0
  /\ stream_in_think_tag = FALSE
  /\ stream_tag_buffer = <<>>
  /\ reasoning_out = <<>>
  /\ text_out = <<>>
  /\ CheckpointInit
  /\ SpanInit

ThinkNext ==
  \E n \in 0..Len(stream_content) : DeltaContent(n)

ThinkSpec == ThinkSpecInit /\ [][ThinkNext]_vars

\* The runs of one thread of a checkpoint agent
CheckpointSpecInit ==
  /\ MergerInit
  /\ hasCallback = FALSE
  /\ ChannelInit
  /\ OrchInit
  /\ AgentInit
  /\ ConfigInit
  /\ ModelInit
  /\ ServerInit
  /\ LaterInit

CheckpointNext ==
  \/ \E messages \in RunInputs : RunStart(messages)
  \/ UpdateClientToolResults
  \/ ProcessToolCallResult
  \/ \E n \in 0..MaxToolCalls :
       \E status \in {"running", "finished", "error"} : ExecuteStep(n, status)
  \/ \E answered \in SUBSET (1..MaxToolCallIds) : StepResumes(answered)
  \/ RunClosed
  \/ \E id \in 1..MaxToolCallIds :
       \E outcome \in {"result", "error"} : SetClientToolCallResult(id, outcome)

CheckpointSpec == CheckpointSpecInit /\ [][CheckpointNext]_vars

\* The scopes of the tasks of one task tree on one SpanContext
SpanSpecInit ==
  /\ MergerInit
  /\ hasCallback = FALSE
  /\ ChannelInit
  /\ OrchInit
  /\ AgentInit
  /\ ConfigInit
  /\ ModelInit
  /\ ServerInit
  /\ LaterInit

SpanNext ==
  \/ \E t \in RunnerTasks : CreateTask(t)
  \/ \E t \in SpanTasks : EnterSpan(t)
  \/ \E t \in SpanTasks : ExitSpan(t)

SpanSpec == SpanSpecInit /\ [][SpanNext]_vars

(***************************************************************************)
(* Properties of the merger                                                *)
(***************************************************************************)
\* tasks whose producer has not completed yet
LiveTasks == {i \in TaskIdx : runningTasks[i].st \in {"created", "running"}}
\* tasks whose producer has completed (finally block passed)
CompletedTasks == {i \in TaskIdx : runningTasks[i].st \in {"callback", "done"}}
\* the stream has ended normally / at all
EndedNormally == mpc \in {"gather", "done"}
Ended == mpc \in {"done", "raised"}

\* the item entries among those yielded from producer g
ItemsOf(g) == SelectSeq(delivered[g], LAMBDA e : e.kind = "item")
EventsOf(g) == SelectSeq(delivered[g], LAMBDA e : e.kind = "__event__")

\* C1: once merge() has been called, and with every task running to its
\* end, the merged stream terminates (normally or by re-raising).
C1_MergeTerminates == (mpc # "init") ~> Ended
C1_Witness ==
  /\ mpc = "done"
  /\ Len(runningTasks) = 2
  /\ \A i \in TaskIdx : runningTasks[i].st = "done"

\* C2: the stream ends normally only in a step that finds no producer
\* active and every registered id processed, and never while a task of a
\* producer is still created or running.
C2_EndsOnlyWhenAllComplete ==
  /\ [](EndedNormally => LiveTasks = {})
  /\ [][(~EndedNormally /\ EndedNormally')
         => (activeCount = 0
             /\ (generators \cup asyncGenerators) \subseteq processed)]_vars
C2_Witness ==
  /\ mpc = "gather"
  /\ Len(runningTasks) = 2
  /\ \E i \in TaskIdx : runningTasks[i].st = "callback"

\* C3 (as claimed): when the stream has ended normally, a task has been
\* created for every producer registered while it was being consumed.
C3_LateProducerStarted == mpc = "done" => lateAdded = {}

\* C4 (as claimed): the stream never ends normally after a producer has
\* raised, i.e. with the producer's error sentinel not re-raised.
C4_RaiseReachesConsumer ==
  EndedNormally => \A k \in 1..Len(queue) : queue[k].kind # "__error__"

\* C5 (as claimed): after the consumer has received a producer's exception
\* no task of the merger puts another item.
C5_NoPutAfterRaise ==
  [][mpc = "raised" => ItemsPut(runningTasks') = ItemsPut(runningTasks)]_vars

\* C6 (as claimed): when the stream has ended normally, the completion of
\* every producer was reported exactly once: by the callback if there is
\* one, else by a generator_complete event the consumer received.
C6_CompletionReportedOnce ==
  mpc = "done" =>
    \A i \in CompletedTasks :
      LET g == runningTasks[i].id IN
        IF hasCallback
        THEN callbackLog[g] = 1 /\ Len(EventsOf(g)) = 0
        ELSE callbackLog[g] = 0 /\ Len(EventsOf(g)) = 1

\* C7: the items the consumer receives from one producer arrive in the
\* order in which that producer emitted them.
C7_ProducerOrderPreserved ==
  \A g \in AllIds :
    \A a, b \in 1..Len(ItemsOf(g)) :
      a < b => ItemsOf(g)[a].k < ItemsOf(g)[b].k
C7_Witness ==
  \E g, h \in AllIds :
    /\ g # h
    /\ Len(ItemsOf(g)) = 2
    /\ Len(ItemsOf(h)) = 1

(***************************************************************************)
(* Properties of the channel                                               *)
(***************************************************************************)
\* calls that have not left send_request
OpenCalls == {c \in CallIdx : calls[c].pc # "ended"}

\* C8: a send_request call gets at most one outcome, and a result or an error
\* it gets is the one of the first set_response that resolved its future,
\* whatever later set_response calls supplied.
C8_OneOutcomeFromFirstResponse ==
  \A c \in CallIdx :
    /\ Len(calls[c].outcomes) <= 1
    /\ \A k \in 1..Len(calls[c].outcomes) :
         LET o == calls[c].outcomes[k]
             r == firstResponse[calls[c].fut]
         IN /\ o.kind = "result" =>
                 r.set /\ r.error = "None" /\ o.val = r.data
            /\ o.kind = "error" =>
                 r.set /\ r.error # "None" /\ o.val = r.error
C8_Witness ==
  \E c \in CallIdx :
    /\ calls[c].pc = "ended"
    /\ calls[c].outcomes[1].kind = "result"
    /\ ignoredResponse = calls[c].fut

\* C9: once a send_request call has returned or raised, the pending table
\* holds no entry for the future that call created.
C9_NoEntryAfterCall ==
  \A c \in CallIdx :
    calls[c].pc = "ended" =>
      \A r \in AllRequestIds : pendingRequests[r] # calls[c].fut
C9_Witness ==
  \E c, d \in CallIdx :
    /\ calls[c].pc = "ended" /\ calls[c].outcomes[1].kind = "cancelled"
    /\ calls[d].pc = "ended" /\ calls[d].outcomes[1].kind = "timeout"

\* C10 (as claimed): no two open calls share a request id, and every open
\* call waits on the future stored under its request id.
C10_OneWaiterPerSlot ==
  /\ \A c, d \in OpenCalls : c # d => calls[c].rid # calls[d].rid
  /\ \A c \in OpenCalls : pendingRequests[calls[c].rid] = calls[c].fut

(***************************************************************************)
(* Properties of the orchestrator                                          *)
(***************************************************************************)
\* the events of task c that a step puts on the queue of run()'s merger
PutBy(c) ==
  IF Len(omQueue') > Len(omQueue) /\ omQueue'[Len(omQueue')].task_id = c
  THEN {omQueue'[Len(omQueue')]}
  ELSE {}

WaitsFor(c) ==
  [id |-> localRunner[c].tool_call_id, st |-> "pending"]

\* the request the toolset of c's parent holds (none before c is made)
ParentFuture(c) ==
  IF localRunner[c].parent_task_id \in TaskIds
  THEN toolFuture[localRunner[c].parent_task_id]
  ELSE NoFuture

\* the request the toolset of c's parent holds after the step
ParentFutureNext(c) ==
  IF localRunner[c].parent_task_id \in TaskIds
  THEN toolFuture'[localRunner[c].parent_task_id]
  ELSE NoFuture

\* C12: when a child task ends in failure (its stream raises, or it ends
\* without a finished result) in multi mode and the runner of its parent is
\* registered, the completion callback sends a CLIENT_TOOL_RESULT to the
\* parent runner, and a tool call of the parent that waits for this child is
\* resolved with the error.
C12_FailureSentToParent ==
  \A c \in TaskIds \ {TopId} :
    (/\ completion[c].failed
     /\ completion[c].branch \notin {"none", "single", "orphan"})
    => /\ completion[c].branch = "sent"
       /\ ParentFuture(c) # WaitsFor(c)

C14_NothingRunsAfterClose ==
  [][runPc = "closed"
       => /\ \A t \in TaskIds : omTasks[t] # "running"
          /\ UNCHANGED <<agentPc, currentRound, toolFuture, toolCalls,
                         lmQueue, omQueue>>]_vars

\* C15: a task whose result was sent to its parent has no runner, no
\* root/parent mapping and no merger entry left, and after run() has ended
\* (normal end, exception, or closed consumer) nothing of the task tree is
\* registered with the orchestrator.
C15_NothingRegisteredAfterRun ==
  /\ \A t \in TaskIds :
       completion[t].branch = "sent"
       => /\ t \notin runners
          /\ t \notin runnerTaskIds
          /\ t \notin mergers
          /\ taskToRoot[t] = "None"
          /\ taskToParent[t] = "None"
  /\ runPc \in {"ended", "raised", "closed"}
     => /\ runners = {}
        /\ runnerTaskIds = {}
        /\ mergers = {}
        /\ \A t \in TaskIds : taskToRoot[t] = "None" /\ taskToParent[t] = "None"

\* the tool call for which child c was made
ToolCallOf(c) == CHOOSE n \in ToolCallIds : ChildNames[n] = c

RolesFit(m) ==
  /\ m.tool_calls # "None" => m.role = "assistant"
  /\ m.tool_call_id # "None" => m.role = "tool"

\* C17: every chat message held in the context store or carried by the
\* response handed on has role assistant if it has tool_calls and role tool
\* if it has a tool_call_id, the final message of a child agent included.
C17_MessageRolesFit ==
  /\ \A i \in 1..Len(context) : RolesFit(heap[context[i]])
  /\ RolesFit(MessageOf(response))

\* C18: handling a STREAM response leaves the context store as it is,
\* whatever the message of the response: get_all() has the same length and
\* the same messages before and after.
C18_StreamNotPersisted ==
  [][(stepPc = "model" /\ response'.message_type = "stream" /\ sent' = sent)
       => /\ Len(context') = Len(context)
          /\ ContextMessagesNext = ContextMessages]_vars

\* a delta with a role has been handled while the context store held
\* messages
C18_Witness ==
  /\ response.message_type = "stream"
  /\ response.message.role = "assistant"
  /\ response.message.tool_calls # "None"
  /\ Len(context) > 1

\* the force-final-answer prompt is among the messages
HasPrompt(messages) ==
  \E i \in 1..Len(messages) :
    /\ messages[i].role = "system"
    /\ messages[i].content = make_force_final_answer_message.content

\* C19: building the model input (compression of search results, eviction
\* of tool cycles, trimming, the force-final-answer prompt) leaves the
\* context store as it is: get_all() returns the same messages with the
\* same contents before and after, and never holds the prompt.
C19_ModelInputLeavesContext ==
  /\ [][(stepPc = "loop" /\ stepPc' = "model")
          => ContextMessagesNext = ContextMessages]_vars
  /\ [](~HasPrompt(ContextMessages))

\* the model input was compressed, evicted and trimmed and ends with the
\* prompt, and the context store still holds every message uncompressed
C19_Witness ==
  /\ stepPc = "model"
  /\ forcePromptInserted
  /\ HasPrompt(modelMessages)
  /\ Len(modelMessages) < Len(context)
  /\ \E i \in 1..Len(context) :
       heap[context[i]].content = "batch_search_results"
  /\ \A i \in 1..Len(modelMessages) :
       modelMessages[i].content # "batch_search_results"

\* C20: when toolset.call raises (the tool's exception or the channel's
\* TimeoutError) the step adds a message with role tool, the tool_call_id of
\* the call and the error text, hands it on with status running, and the
\* loop goes on: the next round starts unless max_steps is reached.
C20_ToolErrorFedBack ==
  /\ [][(stepPc = "tool" /\ stepPc' # "tool"
           /\ toolOutcome' \in {"exception", "timeout"})
          => /\ Len(context') = Len(context) + 1
             /\ ContextMessagesNext[Len(context')]
                  = ToolResultMessage(pendingCall, "Error calling tool")
             /\ MessageOf(response)' = ContextMessagesNext[Len(context')]
             /\ response'.status = "running"
             /\ stepPc' = "loop"]_vars
  /\ [][(stepPc = "loop" /\ stepRound < MaxSteps /\ sent' = sent)
          => (stepPc' = "model" /\ stepRound' = stepRound + 1)]_vars

\* after a tool call that raised, the model is called in the next round with
\* the error message in its input
C20_Witness ==
  /\ toolOutcome \in {"exception", "timeout"}
  /\ stepPc = "model"
  /\ stepRound = 2
  /\ \E i \in 1..Len(modelMessages) :
       modelMessages[i] = ToolResultMessage(CallIds[1], "Error calling tool")

\* C21: the step loop calls the model in at most max_steps rounds; when
\* max_steps rounds have been executed and none ended the run, the loop makes
\* no further model call and its last response has status stopped and no
\* error_msg.
C21_StoppedAtMaxSteps ==
  /\ [](stepRound <= MaxSteps)
  /\ [][(stepPc = "loop" /\ stepRound >= MaxSteps /\ sent' = sent)
          => /\ stepPc' = "done"
             /\ response'.status = "stopped"
             /\ response'.error_msg = "None"
             /\ UNCHANGED <<stepRound, modelMessages>>]_vars
  /\ [][stepPc = "done"
          => (stepPc' = "done" /\ UNCHANGED <<stepRound, modelMessages>>)]_vars

\* max_steps rounds, each with a tool call, and then the STOPPED response
C21_Witness ==
  /\ stepPc = "done"
  /\ stepRound = MaxSteps
  /\ response.status = "stopped"
  /\ Len(context) = 1 + 2 * MaxSteps

\* the model input the overflow manager starts from: context.get_all() with
\* the final-answer prompt when the mode is active
RawInput ==
  ensure_final_prompt([i \in 1..Len(context) |-> Ref(context[i])], heap,
                      forcePromptInserted)

\* the estimated token count of the messages the model is called with
SentTokens == estimate_token_length(
                [i \in 1..Len(modelMessages') |-> Own(modelMessages'[i])],
                heap')

\* C22: when the model input's estimated token count is above upper_limit,
\* the overflow manager ends with a token count below lower_limit, or else
\* with force-final-answer mode active and an input of at most upper_limit.
C22_OverflowEndsWithinLimits ==
  [][(/\ stepPc = "loop"
      /\ stepPc' = "model"
      /\ forceEnabled
      /\ estimate_token_length(RawInput, heap) > UpperLimit)
     => \/ SentTokens < LowerLimit
        \/ forcePromptInserted' /\ SentTokens <= UpperLimit]_vars

\* the ids of the tool calls whose assistant message is in the context store
\* and not in the model input: the overflow manager evicted it
EvictedCalls ==
  {id \in {CallIds[r] : r \in 1..Len(CallIds)} :
     /\ \E i \in 1..Len(context) : ContextMessages[i].tool_calls = id
     /\ \A j \in 1..Len(modelMessages) : modelMessages[j].tool_calls # id}

EndsWithPrompt(messages) ==
  /\ messages # <<>>
  /\ messages[Len(messages)] = make_force_final_answer_message

\* C24: force-final-answer mode, once active, is never left, and every model
\* call made while it is active (the call that activates it included) gets
\* an input whose last message is the final-answer prompt.
C24_FinalAnswerModeStays ==
  /\ [][forcePromptInserted => forcePromptInserted']_vars
  /\ [][(stepPc = "loop" /\ stepPc' = "model" /\ forcePromptInserted')
          => EndsWithPrompt(modelMessages')]_vars

\* the second model call of a run whose first call activated the mode: the
\* input messages alone reach upper_limit
C24_Witness ==
  /\ stepPc = "model"
  /\ stepRound = 2
  /\ forcePromptInserted
  /\ estimate_token_length(<<Ref(context[1])>>, heap) >= UpperLimit
  /\ EndsWithPrompt(modelMessages)
  /\ Len(modelMessages) > 1

(***************************************************************************)
(* Properties of the context limits                                        *)
(***************************************************************************)
\* the first of the optional values that is set, else the default
FirstSet(values, default) ==
  IF \A i \in 1..Len(values) : values[i] = None THEN default
  ELSE values[CHOOSE i \in 1..Len(values) :
                /\ values[i] # None
                /\ \A j \in 1..(i - 1) : values[j] = None][1]

C26_RetryFiveTimesLinearBackoff ==
  /\ invocations <= 5
  /\ Len(sleeps) <= 4
  /\ \A i \in 1..Len(sleeps) : sleeps[i] = <<2, 4, 6, 8>>[i]
  /\ callPc \in {"running", "returned", "raised"}
       => Len(sleeps) = invocations - 1
  /\ callPc = "sleeping" => Len(sleeps) = invocations
  /\ callPc = "raised"
       => /\ invocations = 5
          /\ sleeps = <<2, 4, 6, 8>>
          /\ raisedExc = 5
  /\ callPc # "raised" => raisedExc = 0

\* all five attempts of a streaming call failed, the later ones after chunks
C26_Witness ==
  /\ callPc = "raised"
  /\ streaming
  /\ invocations = 5
  /\ raisedExc = 5
  /\ Len(deltas) > 0

RECURSIVE Concat(_)
\* the concatenation of a list of lists
Concat(lists) ==
  IF lists = <<>> THEN <<>> ELSE Head(lists) \o Concat(Tail(lists))

\* the first / last non-empty value of a list of strings, "" if there is none
FirstNonEmpty(values) ==
  IF \A i \in 1..Len(values) : values[i] = <<>> THEN <<>>
  ELSE values[CHOOSE i \in 1..Len(values) :
                /\ values[i] # <<>>
                /\ \A j \in 1..(i - 1) : values[j] = <<>>]
LastNonEmpty(values) ==
  IF \A i \in 1..Len(values) : values[i] = <<>> THEN <<>>
  ELSE values[CHOOSE i \in 1..Len(values) :
                /\ values[i] # <<>>
                /\ \A j \in (i + 1)..Len(values) : values[j] = <<>>]

RECURSIVE SumOf(_)
SumOf(numbers) ==
  IF numbers = <<>> THEN 0 ELSE Head(numbers) + SumOf(Tail(numbers))

\* the tool calls of a list that have the given index, in order
RECURSIVE WithIndex(_, _)
WithIndex(list, index) ==
  IF list = <<>> THEN <<>>
  ELSE (IF Head(list).index = index THEN <<Head(list)>> ELSE <<>>)
         \o WithIndex(Tail(list), index)

\* the content blocks of all deltas in arrival order, the maximal runs of
\* blocks of one type as one block each: run k starts at a block whose
\* predecessor has another type and ends before the next such block
BlocksInOrder(ds) ==
  LET all == Concat([i \in 1..Len(ds) |-> ds[i].content])
      starts == {i \in 1..Len(all) : i = 1 \/ all[i - 1].type # all[i].type}
      EndOf(s) == CHOOSE e \in s..Len(all) :
                    /\ \A i \in s..e : all[i].type = all[s].type
                    /\ e = Len(all) \/ all[e + 1].type # all[s].type
      Nth(k) == CHOOSE s \in starts :
                  Cardinality({x \in starts : x < s}) = k - 1
  IN [k \in 1..Cardinality(starts) |->
        [type |-> all[Nth(k)].type,
         text |-> Concat([i \in 1..(EndOf(Nth(k)) - Nth(k) + 1) |->
                            all[Nth(k) + i - 1].text])]]

\* the tool calls of all deltas merged by index, in the order in which the
\* indices first arrive
ToolCallsByIndex(ds) ==
  LET all == Concat([i \in 1..Len(ds) |-> ds[i].tool_calls])
      firsts == {i \in 1..Len(all) :
                   \A j \in 1..(i - 1) : all[j].index # all[i].index}
      Nth(k) == CHOOSE s \in firsts :
                  Cardinality({x \in firsts : x < s}) = k - 1
      Of(k) == WithIndex(all, all[Nth(k)].index)
  IN [k \in 1..Cardinality(firsts) |->
        [index |-> all[Nth(k)].index,
         id |-> FirstNonEmpty([i \in 1..Len(Of(k)) |-> Of(k)[i].id]),
         type |-> LastNonEmpty([i \in 1..Len(Of(k)) |-> Of(k)[i].type]),
         name |-> Concat([i \in 1..Len(Of(k)) |-> Of(k)[i].name]),
         arguments |-> Concat([i \in 1..Len(Of(k)) |-> Of(k)[i].arguments])]]

\* the in-order merge of a list of deltas
InOrderMerge(ds) ==
  [id |-> FirstNonEmpty([i \in 1..Len(ds) |-> ds[i].id]),
   role |-> FirstNonEmpty([i \in 1..Len(ds) |-> ds[i].role]),
   content |-> BlocksInOrder(ds),
   tool_calls |-> ToolCallsByIndex(ds),
   tokens |-> SumOf([i \in 1..Len(ds) |-> ds[i].tokens])]

\* C27: the accumulated message of a streaming call is the in-order merge of
\* all deltas received: role and id have their first non-empty value,
\* content text is concatenated in arrival order, tool calls are merged by
\* index with their type overwritten, integer fields are summed.
C27_AccumulatedIsInOrderMerge ==
  /\ deltas = <<>> => accumulated_message = None
  /\ deltas # <<>> => accumulated_message = <<InOrderMerge(deltas)>>

\* a stream that ended after the two deltas of one tool call and more
C27_Witness ==
  /\ callPc = "returned"
  /\ streaming
  /\ Len(deltas) = MaxDeltas
  /\ accumulated_message # None
  /\ \E i \in 1..Len(accumulated_message[1].tool_calls) :
       /\ accumulated_message[1].tool_calls[i].arguments = <<"{", "}">>
       /\ accumulated_message[1].tool_calls[i].type = <<"function">>

(***************************************************************************)
(* Properties of the context store                                         *)
(***************************************************************************)
\* C28: what get_all() returns changes only through add() calls of the step
\* loop: appending to the list that was given to add() earlier (the
\* runner's input message list, appended to by LocalRunner.send) leaves
\* what get_all() returns as it is.
C28_ContextChangesOnlyByAdd ==
  [][sent' # sent => ContextMessagesNext = ContextMessages]_vars

(***************************************************************************)
(* Properties of the websocket handler                                     *)
(***************************************************************************)
\* C29: an invalid event after the initial REQUEST (one that fails
\* validation, or one for a task id without a runner) is skipped: the
\* receive loop does not end with it, and the outgoing event stream is not
\* cut off.
C29_InvalidEventsSkipped ==
  /\ recvTask # "raised"
  /\ agentTask # "cancelled"

\* C30: after a run that got one user message and whose model answered
\* without tool calls, get_all() returns the system message the model was
\* called with, the user message and the assistant message, in that order.
C30_ContextHoldsSystemUserAssistant ==
  (/\ stepPc = "done"
   /\ response.status = "finished"
   /\ stepRound = 1
   /\ sent = 0
   /\ Cardinality({i \in 1..Len(context) :
                     ContextMessages[i].role = "user"}) = 1
   /\ \A i \in 1..Len(context) :
        ContextMessages[i].role = "system"
          => ContextMessages[i] = Head(infer_messages))
    => /\ Len(context) = 3
       /\ ContextMessages[1] = Head(infer_messages)
       /\ ContextMessages[2].role = "user"
       /\ ContextMessages[3].role = "assistant"
       /\ ContextMessages[3].tool_calls = "None"

(***************************************************************************)
(* Further properties of the merger                                        *)
(***************************************************************************)
\* C31 (as claimed): the merged stream never ends while an item that a
\* producer put before it completed is still queued: when merge() has
\* returned, no produced item is left in the queue.
C31_QueuedItemsYieldedBeforeEnd ==
  mpc = "done" => \A k \in 1..Len(queue) : queue[k].kind # "item"

\* C35 (as claimed): the id add_generator generates for a producer
\* registered without an id is never the id of a producer that has already
\* completed in the stream being consumed (add_generator is only called
\* without an id here, so every id that enters _generators is generated).
C35_GeneratedIdIsFresh ==
  [][\A g \in generators' \ generators :
       ~(Consuming /\ g \in processed)]_vars

(***************************************************************************)
(* Further properties of the channel                                       *)
(***************************************************************************)
\* C36: a response given to set_response while the on_send handler of the
\* request runs reaches the send_request call.  A call in its handler has
\* its future in the pending table already (for a request id no other call
\* uses), so that set_response finds it; and a call whose future was
\* resolved during the handler never stays waiting: once the handler has
\* returned, the call ends with that response as its result or its error,
\* never with a timeout.  (A call whose handler raises, or whose caller is
\* cancelled during the handler, ends with that exception.)
C36_ResponseBeforeWaitDelivered ==
  \A c \in CallIdx :
    LET r == firstResponse[calls[c].fut] IN
      /\ (/\ calls[c].pc = "on_send"
          /\ \A d \in CallIdx : d # c => calls[d].rid # calls[c].rid)
           => pendingRequests[calls[c].rid] = calls[c].fut
      /\ (r.set /\ r.at = "on_send")
           => /\ calls[c].pc # "wait"
              /\ calls[c].pc = "ended"
                   => \/ calls[c].outcomes[1].kind \in {"send_error",
                                                        "cancelled"}
                      \/ calls[c].outcomes
                           = <<[kind |-> IF r.error = "None" THEN "result"
                                         ELSE "error",
                                val |-> IF r.error = "None" THEN r.data
                                        ELSE r.error]>>
\* two calls that got their responses during their handlers, a result and
\* an error
C36_Witness ==
  \E c, d \in CallIdx :
    /\ calls[c].pc = "ended" /\ calls[d].pc = "ended"
    /\ firstResponse[calls[c].fut].at = "on_send"
    /\ firstResponse[calls[d].fut].at = "on_send"
    /\ calls[c].outcomes[1].kind = "result"
    /\ calls[d].outcomes[1].kind = "error"

(***************************************************************************)
(* Further properties of the orchestrator                                  *)
(***************************************************************************)
\* C32 (as claimed): in multi mode, once the root agent has yielded its
\* finished response (its runner holds the result), the root agent makes no
\* further round of its step loop: no further model call for the root task.
C32_RootStepLoopStartedOnce ==
  [][(orchMode = "multi" /\ localRunner[TopId].result = "set")
       => ~(currentRound'[TopId] > currentRound[TopId])]_vars

(***************************************************************************)
(* Further properties of a model call                                      *)
(***************************************************************************)
\* C33 (as claimed): when a streaming call has returned, its accumulated
\* message is the merge of the deltas of the attempt that succeeded only:
\* the deltas that attempts which failed had delivered are not part of it.
C33_OnlySuccessfulAttemptMerged ==
  (callPc = "returned" /\ streaming) =>
    LET own == SubSeq(deltas, failedDeltas + 1, Len(deltas)) IN
      accumulated_message = IF own = <<>> THEN None
                            ELSE <<InOrderMerge(own)>>

(***************************************************************************)
(* Further properties of the step loop                                     *)
(***************************************************************************)
\* C34 (as claimed): at every model call of the step loop, each tool call
\* of each assistant message in the context store has exactly one
\* tool-result message with its tool_call_id stored after that message.
C34_EveryToolCallHasOneResult ==
  stepPc = "model" =>
    \A i \in 1..Len(context) :
      (ContextMessages[i].role = "assistant"
       /\ ContextMessages[i].tool_calls # "None")
        => Cardinality({j \in (i + 1)..Len(context) :
                          /\ ContextMessages[j].role = "tool"
                          /\ ContextMessages[j].tool_call_id
                               = ContextMessages[i].tool_calls}) = 1

\* C37 (as claimed): in multi mode, when run() takes a CLIENT_TOOL_CALL
\* event of type AGENT from the merged stream, the step either makes a child
\* runner for the call or resolves the caller's pending tool call with an
\* error.
C37_AgentCallServedOrAnswered ==
  [][(/\ runPc = "get"
      /\ omQueue # <<>>
      /\ Len(omQueue') < Len(omQueue)
      /\ orchMode = "multi"
      /\ Head(omQueue).type = "client_tool_call"
      /\ Head(omQueue).call_type = "agent")
       => \/ ChildNames[Head(omQueue).tool_call_id] \in runners'
          \/ toolFuture'[Head(omQueue).task_id].st = "error"]_vars

(***************************************************************************)
(* Properties of the think-tag extractor                                   *)
(***************************************************************************)
RECURSIVE PlainParts(_, _, _)
\* the characters of s from index i on that are not part of a complete
\* <think> or </think> tag, those inside a think region as reasoning, the
\* others as text
PlainParts(s, i, in_think) ==
  IF i > Len(s) THEN [reasoning |-> <<>>, text |-> <<>>]
  ELSE LET tag == IF in_think THEN THINK_CLOSE_TAG ELSE THINK_OPEN_TAG IN
       IF StartsWith(SubSeq(s, i, Len(s)), tag)
       THEN PlainParts(s, i + Len(tag), ~in_think)
       ELSE LET p == PlainParts(s, i + 1, in_think) IN
            IF in_think
            THEN [reasoning |-> <<s[i]>> \o p.reasoning, text |-> p.text]
            ELSE [reasoning |-> p.reasoning, text |-> <<s[i]>> \o p.text]

\* all deltas of the content have arrived
StreamEnded == chunks >= 1 /\ delivered_len = Len(stream_content)

\* C38 (as claimed): when all deltas of a content have arrived, however it
\* was split, each of its characters outside the tags has been returned
\* exactly once and in order, as reasoning inside a think region and as
\* text outside, and this is what one call on the unsplit content returns.
C38_EveryCharEmittedOnce ==
  StreamEnded =>
    LET unsplit == process_stream_content_for_think(FALSE, <<>>,
                                                    stream_content)
    IN /\ reasoning_out = PlainParts(stream_content, 1, FALSE).reasoning
       /\ text_out = PlainParts(stream_content, 1, FALSE).text
       /\ reasoning_out = unsplit.reasoning
       /\ text_out = unsplit.text

(***************************************************************************)
(* Properties of the checkpoint agent                                      *)
(***************************************************************************)
\* index of the last assistant message of a history (0: none)
LastAssistant(messages) ==
  IF \E k \in 1..Len(messages) : messages[k].role = "assistant"
  THEN CHOOSE k \in 1..Len(messages) :
         /\ messages[k].role = "assistant"
         /\ \A j \in (k + 1)..Len(messages) : messages[j].role # "assistant"
  ELSE 0

\* positions of the tool messages of a history that answer tool call id
ToolMessagesFor(messages, id) ==
  {k \in 1..Len(messages) :
     messages[k].role = "tool" /\ messages[k].tool_call_id = id}

\* C39: whenever the model is called (the run is suspended at the yield of
\* _step, which got state.messages), the history holds exactly one tool
\* message for every tool call of its last assistant message, whatever
\* runs of the thread came before.
C39_ModelCalledWithEachResultOnce ==
  cpPc = "step" =>
    LET messages == state.messages
        k == LastAssistant(messages)
    IN k > 0 =>
         \A j \in 1..Len(messages[k].tool_calls) :
           Cardinality(ToolMessagesFor(messages, messages[k].tool_calls[j])) = 1

(***************************************************************************)
(* Properties of the span context                                          *)
(***************************************************************************)
\* C40: while send_to_client_loop is in its scope, and so the tasks of the
\* runners work on the SpanContext they inherited: when a scope of such a
\* task ends, the span taken off the stack is the span this scope made; and
\* when such a task makes a span, its parent is a span whose scope is still
\* open in the task that opened it.
C40_ScopeRemovesOwnSpanAndParentIsOpen ==
  [][\A t \in RunnerTasks :
       scopes[MainTask] # <<>> =>
         /\ Len(scopes'[t]) < Len(scopes[t]) =>
              span_stack[Len(span_stack)] = InnermostSpan(t)
         /\ Len(scopes'[t]) > Len(scopes[t]) =>
              \E u \in SpanTasks : spanParent'[spanCount'] \in OpenIn(u)]_vars
====
